---- MODULE Spec2Model ----
(***************************************************************************)
(* A model of cmake_node_editor: the node graph kept by NodeScene          *)
(* (node_scene.py), the handlers of NodeEditorWindow and its listener      *)
(* thread (node_editor_window.py), the worker process (worker.py) and the  *)
(* JSON helpers of datas.py.                                               *)
(*                                                                         *)
(* NodeItem objects are handles 1..MaxNodes; an Edge is the pair of the    *)
(* node of its output pin and the node of its input pin.  A NodeData has   *)
(* all its fields; positions are not kept.  The file system appears as the *)
(* kind of a project path, a step's command and display name as its place  *)
(* in the plan.  worker_main is modelled from its "started" log on; the    *)
(* loading of the Visual Studio environment under Windows before it is     *)
(* left out.  Its steps run from one blocking call (task_queue.get, exec,  *)
(* subprocess.run) to the next.  result_queue keeps every event that was   *)
(* put; the listener thread's place in it is taken.  A slot runs as one    *)
(* step of the main thread, but for the join in stopWorkerProcess, during  *)
(* which the worker goes on.  The argument lists of the cmake commands and *)
(* the verdict of one step over what its child process returned are        *)
(* computed on their own; of the properties panel the generator combo box  *)
(* is kept.                                                                *)
(***************************************************************************)
EXTENDS Integers, Sequences, FiniteSets, TLC

(***************************************************************************)
(* Bounds of the exploration.                                              *)
(***************************************************************************)
\* NodeItem objects alive in the scene at one time
MaxNodes == 3
\* Edge objects alive in the scene at one time
MaxEdges == 3
\* largest value NodeScene.nodeCounter is allowed to reach
MaxCounter == 3
\* node records in a project file that is loaded
MaxFileNodes == 2
\* edge records in a project file that is loaded
MaxFileEdges == 2
\* node ids that occur in a project file
MaxFileId == 2
\* node groups (NodeCommands) in a plan handed to the worker
MaxGroups == 2
\* steps (CommandData) in the cmd_list of a node group
MaxCmds == 3
\* nodes and edges of the graphs the build handlers are explored on
MaxBuildNodes == 2
MaxBuildEdges == 2
\* worker processes started in one exploration of the build handlers
MaxRuns == 2
\* emitted signals waiting for the main thread at one time
MaxPending == 2
\* events left on the result queue of a run when the next run is started over it
MaxBacklog == 1
\* steps of a plan whose events are followed from the worker to the slots
MaxDeliverSteps == 2

VARIABLES
    nodes,          \* NodeScene.nodes: list of NodeItem objects (handles)
    edges,          \* NodeScene.edges: list of Edge objects, <<source node, target node>>
    node_data,      \* NodeItem._data (a NodeData) of every object
    nodeCounter,    \* NodeScene.nodeCounter (class attribute)
    notified,       \* whether the last operation called notifyTopologyChanged
    assigned_ids,   \* history: the node ids given out since the graph was loaded
    lastOp,         \* the operation that ran last, with its arguments (for removeNode
                    \* the node and the number of edges before, for a load the file)
    task_queue,     \* the multiprocessing.Queue the worker reads its tasks from
    result_queue,   \* the multiprocessing.Queue the worker puts its events on
    worker,         \* where worker_main stands: "init", "get", "execute", "finished",
                    \* "died" (an exception left it), "terminated" (it was killed)
    task,           \* worker_main: the ProjectCommands being executed
    idx,            \* worker_main: enumerate index of the node group being executed
    cmd_pos,        \* worker_main: position in cmd_list of the step to execute next
    current_node,   \* NodeEditorWindow.current_node (0 is None)
    combo_generator,    \* the current text of the properties panel's generator combo box
    edit_start_node_id, \* the text of the "Start Node ID" field
    messages,       \* the QMessageBox texts the last handler showed
    buttons_enabled,\* btn_build_all and btn_build_node are enabled
    result_thread,  \* 0 (None), or which ResultListenerThread, in order of creation
    worker_proc,    \* NodeEditorWindow.worker_proc: "None", "started", or, while
                    \* stopWorkerProcess waits in join, "joining" (called by
                    \* closeEvent) and "stopping" (called by onWorkerResponse)
    spawned,        \* worker processes started so far
    build_dirs,     \* nodes whose build directory os.makedirs has created
    saved_file,     \* the project file onSaveProject wrote last
    taken,          \* how many events the listener thread has got from result_queue
    signals,        \* the signals emitted by listener threads that wait for their slot
    current_progress,   \* NodeEditorWindow.current_progress
    build_output_text,  \* the lines of the build output pane
    orphan          \* the run whose queues, process and thread the window has dropped

sceneVars == <<nodes, edges, node_data, nodeCounter, notified, assigned_ids>>

graphVars == <<nodes, edges, node_data, nodeCounter, notified, assigned_ids, lastOp>>

workerVars == <<task_queue, result_queue, worker, task, idx, cmd_pos>>

runVars == <<taken, signals, current_progress, build_output_text, orphan>>

windowVars == <<current_node, combo_generator, edit_start_node_id, messages, buttons_enabled,
                result_thread, worker_proc, spawned, build_dirs, saved_file, runVars>>

vars == <<graphVars, workerVars, windowVars>>

(***************************************************************************)
(* Python lists.                                                           *)
(***************************************************************************)
Range(s) == {s[i] : i \in 1..Len(s)}

InList(x, s) == \E i \in 1..Len(s) : s[i] = x

\* list.remove(x): drops the first element equal to x
ListRemove(s, x) ==
    LET i == CHOOSE k \in 1..Len(s) : s[k] = x /\ \A j \in 1..(k-1) : s[j] # x
    IN  [k \in 1..(Len(s)-1) |-> IF k < i THEN s[k] ELSE s[k+1]]

\* all lists over S of length at most n
ListsUpTo(S, n) == UNION {[1..k -> S] : k \in 0..n}

Max(a, b) == IF a >= b THEN a ELSE b

(***************************************************************************)
(* NodeItem objects.  An object is named by a handle; an object that has   *)
(* left the scene is garbage and its handle is free again.                 *)
(***************************************************************************)
Handle == 1..MaxNodes

NewHandle(ns) ==
    CHOOSE h \in Handle \ Range(ns) : \A g \in Handle \ Range(ns) : h <= g

\* Python's None
None == [isNone |-> TRUE, list |-> <<>>]

\* datas.BuildSettings
BuildSettings(build_dir, install_dir, build_type, prefix_path, toolchain_file, generator, c_compiler, cxx_compiler) ==
    [build_dir |-> build_dir, install_dir |-> install_dir,
     build_type |-> build_type, prefix_path |-> prefix_path,
     toolchain_file |-> toolchain_file, generator |-> generator,
     c_compiler |-> c_compiler, cxx_compiler |-> cxx_compiler]

\* the settings addNewNode and loadProjectFromJson fall back to
DefaultBuildSettings ==
    BuildSettings("cwd/build", "cwd/install", "Debug", "cwd/install", "", "", "", "")

\* datas.NodeData (pos_x and pos_y are not followed)
NodeData(node_id, title, cmake_options, project_path, build_settings, code_before_build, code_after_install) ==
    [node_id |-> node_id, title |-> title, cmake_options |-> cmake_options,
     project_path |-> project_path, build_settings |-> build_settings,
     code_before_build |-> code_before_build,
     code_after_install |-> code_after_install]

\* f"Node_{n}"
NodeTitle(n) == "Node_" \o ToString(n)

\* the data of a handle that names no object
NoData == NodeData(0, "", <<>>, "", DefaultBuildSettings, "", "")

\* the scene as the methods of NodeScene see it
Scene == [nodes |-> nodes, edges |-> edges, node_data |-> node_data,
          nodeCounter |-> nodeCounter, notified |-> FALSE]

\* NodeScene.notifyTopologyChanged
notifyTopologyChanged(S) == [S EXCEPT !.notified = TRUE]

(***************************************************************************)
(* NodeScene.addNewNode                                                    *)
(***************************************************************************)
\* addNewNode as it would be with the id computed from the nodes in the graph
addNewNode_MaxPlusOne(S, title, cmake_options, project_path, build_settings) ==
    LET h == NewHandle(S.nodes)
        bs == IF build_settings = None THEN DefaultBuildSettings ELSE build_settings
        ids == {S.node_data[n].node_id : n \in Range(S.nodes)}
        top == IF ids = {} THEN 0 ELSE CHOOSE m \in ids : \A x \in ids : x <= m
        S1 == [S EXCEPT !.node_data[h] = NodeData(top + 1, title, cmake_options,
                                                  project_path, bs, "", ""),
                        !.nodeCounter = @ + 1,
                        !.nodes = Append(@, h)]
    IN  notifyTopologyChanged(S1)

addNewNode(S, title, cmake_options, project_path, build_settings) ==
    LET h == NewHandle(S.nodes)
        bs == IF build_settings = None THEN DefaultBuildSettings ELSE build_settings
        S1 == [S EXCEPT !.node_data[h] = NodeData(S.nodeCounter, title, cmake_options,
                                                  project_path, bs, "", ""),
                        !.nodeCounter = @ + 1,
                        !.nodes = Append(@, h)]
    IN  notifyTopologyChanged(S1)

(***************************************************************************)
(* NodeScene.removeEdge                                                    *)
(***************************************************************************)
removeEdge(S, e) ==
    IF InList(e, S.edges)
    THEN notifyTopologyChanged([S EXCEPT !.edges = ListRemove(@, e)])
    ELSE S

RECURSIVE removeEdges(_, _)
\* for e in <list>: self.removeEdge(e)
removeEdges(S, es) ==
    IF es = <<>> THEN S ELSE removeEdges(removeEdge(S, Head(es)), Tail(es))

(***************************************************************************)
(* NodeScene.removeNode                                                    *)
(***************************************************************************)
removeNode_KeepIncoming(S, n) ==
    IF InList(n, S.nodes)
    THEN LET edges_to_remove == SelectSeq(S.edges, LAMBDA e : e[1] = n)
             S1 == removeEdges(S, edges_to_remove)
             S2 == [S1 EXCEPT !.nodes = ListRemove(@, n), !.node_data[n] = NoData]
         IN  notifyTopologyChanged(S2)
    ELSE S

removeNode(S, n) ==
    IF InList(n, S.nodes)
    THEN LET edges_to_remove ==
                 SelectSeq(S.edges, LAMBDA e : e[1] = n \/ e[2] = n)
             S1 == removeEdges(S, edges_to_remove)
             S2 == [S1 EXCEPT !.nodes = ListRemove(@, n), !.node_data[n] = NoData]
         IN  notifyTopologyChanged(S2)
    ELSE S

RECURSIVE removeNodes(_, _)
\* for n in <list>: self.removeNode(n)
removeNodes(S, ns) ==
    IF ns = <<>> THEN S ELSE removeNodes(removeNode(S, Head(ns)), Tail(ns))

(***************************************************************************)
(* NodeScene.addEdge: source_pin is the output pin of node src, target_pin *)
(* the input pin of node dst.                                              *)
(***************************************************************************)
addEdge_NoSelfLoopCheck(S, src, dst) ==
    IF \E i \in 1..Len(S.edges) : S.edges[i] = <<src, dst>>
    THEN S
    ELSE notifyTopologyChanged([S EXCEPT !.edges = Append(@, <<src, dst>>)])

addEdge_NoDuplicateCheck(S, src, dst) ==
    IF src = dst
    THEN S
    ELSE notifyTopologyChanged([S EXCEPT !.edges = Append(@, <<src, dst>>)])

addEdge(S, src, dst) ==
    IF src = dst
    THEN S
    ELSE IF \E i \in 1..Len(S.edges) : S.edges[i] = <<src, dst>>
         THEN S
         ELSE notifyTopologyChanged([S EXCEPT !.edges = Append(@, <<src, dst>>)])

(***************************************************************************)
(* NodeScene.clearScene                                                    *)
(***************************************************************************)
clearScene(S) ==
    LET S1 == removeEdges(S, S.edges)
        S2 == removeNodes(S1, S1.nodes)
    IN  [S2 EXCEPT !.nodes = <<>>, !.edges = <<>>]

(***************************************************************************)
(* NodeScene.topologicalSort (Kahn's algorithm over a deque).  The return  *)
(* value is None or a list of nodes.                                       *)
(***************************************************************************)
ListResult(r) == [isNone |-> FALSE, list |-> r]

\* adjacency[n] after the loop over self.edges: the targets of n's edges, in edge order
adjacency(es, n) ==
    LET out == SelectSeq(es, LAMBDA e : e[1] = n)
    IN  [i \in 1..Len(out) |-> out[i][2]]

\* in_degree[n] after the loop over self.edges
in_degree(es, n) == Cardinality({i \in 1..Len(es) : es[i][2] = n})

RECURSIVE visitChildren(_, _, _)
\* for child in adjacency[node]: in_degree[child] -= 1; append it when it drops to 0
visitChildren(children, deg, queue) ==
    IF children = <<>>
    THEN [deg |-> deg, queue |-> queue]
    ELSE LET child == Head(children)
             deg1 == [deg EXCEPT ![child] = @ - 1]
         IN  visitChildren(Tail(children), deg1,
                           IF deg1[child] = 0 THEN Append(queue, child) ELSE queue)

RECURSIVE kahnLoop_PopsNewest(_, _, _, _)
\* the loop with queue.pop() in the place of queue.popleft()
kahnLoop_PopsNewest(es, queue, result, deg) ==
    IF queue = <<>>
    THEN result
    ELSE LET node == queue[Len(queue)]
             v == visitChildren(adjacency(es, node), deg,
                                SubSeq(queue, 1, Len(queue) - 1))
         IN  kahnLoop_PopsNewest(es, v.queue, Append(result, node), v.deg)

RECURSIVE kahnLoop(_, _, _, _)
\* while queue: node = queue.popleft(); result.append(node); ...
kahnLoop(es, queue, result, deg) ==
    IF queue = <<>>
    THEN result
    ELSE LET node == Head(queue)
             v == visitChildren(adjacency(es, node), deg, Tail(queue))
         IN  kahnLoop(es, v.queue, Append(result, node), v.deg)

kahnResult(ns, es) ==
    LET deg == [n \in Range(ns) |-> in_degree(es, n)]
        queue == SelectSeq(ns, LAMBDA n : deg[n] = 0)
    IN  kahnLoop(es, queue, <<>>, deg)

topologicalSort_PartialOrder(ns, es) == ListResult(kahnResult(ns, es))

topologicalSort_NodeOrder(ns, es) ==
    IF Len(kahnResult(ns, es)) < Len(ns) THEN None ELSE ListResult(ns)

topologicalSort(ns, es) ==
    LET result == kahnResult(ns, es)
    IN  IF Len(result) < Len(ns) THEN None ELSE ListResult(result)

(***************************************************************************)
(* NodeScene.loadProjectFromJson.  A project file is the list of the       *)
(* node_id values of its node records and the list of its edge records     *)
(* <<source_node_id, target_node_id>>.                                     *)
(***************************************************************************)
FileId == 1..MaxFileId

\* the files whose node records are drawn from recs
ProjectFiles(recs) ==
    [nodes : ListsUpTo(recs, MaxFileNodes),
     edges : ListsUpTo(FileId \X FileId, MaxFileEdges)]

\* a node record that has id as its node_id and nothing else of interest
FileNode(id) == NodeData(id, NodeTitle(id), <<>>, "", DefaultBuildSettings, "", "")

ProjectFile == ProjectFiles({FileNode(id) : id \in FileId})

RECURSIVE loadCounter(_, _)
\* for nd in data["nodes"]: nodeCounter = max(nodeCounter, node_id + 1)
loadCounter(c, nds) ==
    IF nds = <<>> THEN c ELSE loadCounter(Max(c, Head(nds).node_id + 1), Tail(nds))

RECURSIVE loadNodes(_, _, _)
\* recreates the nodes; node_map[id] is the last node created with that id
loadNodes(S, nds, node_map) ==
    IF nds = <<>>
    THEN [scene |-> S, node_map |-> node_map]
    ELSE LET h == NewHandle(S.nodes)
             nd == Head(nds)
             S1 == [S EXCEPT !.node_data[h] =
                                 NodeData(nd.node_id, nd.title, nd.cmake_options,
                                          nd.project_path, nd.build_settings,
                                          nd.code_before_build, nd.code_after_install),
                             !.nodes = Append(@, h)]
         IN  loadNodes(S1, Tail(nds), [node_map EXCEPT ![nd.node_id] = h])

RECURSIVE loadEdges_NoNodeMapCheck(_, _, _)
loadEdges_NoNodeMapCheck(S, eds, node_map) ==
    IF eds = <<>>
    THEN S
    ELSE loadEdges_NoNodeMapCheck(
             addEdge(S, node_map[Head(eds)[1]], node_map[Head(eds)[2]]),
             Tail(eds), node_map)

RECURSIVE loadEdges(_, _, _)
\* recreates the edges whose two ids are keys of node_map
loadEdges(S, eds, node_map) ==
    IF eds = <<>>
    THEN S
    ELSE LET src_id == Head(eds)[1]
             dst_id == Head(eds)[2]
         IN  loadEdges(IF node_map[src_id] # 0 /\ node_map[dst_id] # 0
                       THEN addEdge(S, node_map[src_id], node_map[dst_id])
                       ELSE S,
                       Tail(eds), node_map)

\* the ids a file names; node_map[id] = 0 stands for "id not in node_map"
IdsOf(file) ==
    {file.nodes[i].node_id : i \in 1..Len(file.nodes)}
    \cup {file.edges[i][1] : i \in 1..Len(file.edges)}
    \cup {file.edges[i][2] : i \in 1..Len(file.edges)}

\* loadProjectFromJson as it would be with the counter carried over the load
loadProjectFromJson_KeepsCounter(S, file) ==
    LET S0 == clearScene(S)
        S1 == [S0 EXCEPT !.nodeCounter = loadCounter(S.nodeCounter, file.nodes)]
        ld == loadNodes(S1, file.nodes, [i \in IdsOf(file) |-> 0])
        S2 == loadEdges(ld.scene, file.edges, ld.node_map)
    IN  notifyTopologyChanged(S2)

loadProjectFromJson(S, file) ==
    LET S0 == clearScene(S)
        S1 == [S0 EXCEPT !.nodeCounter = loadCounter(1, file.nodes)]
        ld == loadNodes(S1, file.nodes, [i \in IdsOf(file) |-> 0])
        S2 == loadEdges(ld.scene, file.edges, ld.node_map)
    IN  notifyTopologyChanged(S2)

(***************************************************************************)
(* NodeScene.saveProjectToJson: asdict of the NodeData of every node and   *)
(* of the EdgeData of every edge, which holds the ids of its two nodes,    *)
(* and the start node id under "global".                                   *)
(***************************************************************************)
edgeData(S, e) == <<S.node_data[e[1]].node_id, S.node_data[e[2]].node_id>>

saveProjectToJson(S, start_node_id) ==
    [nodes |-> [i \in 1..Len(S.nodes) |-> S.node_data[S.nodes[i]]],
     edges |-> [i \in 1..Len(S.edges) |-> edgeData(S, S.edges[i])],
     start_node_id |-> start_node_id]

(***************************************************************************)
(* datas.to_json and datas.from_json.  A Python value is a dataclass       *)
(* instance or a dict (with the class or "dict" as py and the fields or    *)
(* items as a record) or one of the values json writes as they are.        *)
(***************************************************************************)
Instance(cls, items) == [py |-> cls, items |-> items]

Dict(items) == [py |-> "dict", items |-> items]

\* the exception a call has raised
Raise(exception) == [py |-> "raised", exception |-> exception]

\* a NodeData of the scene as the instance it is, with its BuildSettings instance
NodeDataInstance(d) ==
    Instance("NodeData", [d EXCEPT !.build_settings = Instance("BuildSettings", @)])

\* dataclasses.asdict: the instance and the instances in its fields become dicts
asdict(x) == Dict([x.items EXCEPT !.build_settings = Dict(@.items)])

\* json.dumps(obj, *, skipkeys=False, ensure_ascii=True, ...): every parameter after
\* obj is keyword-only; the text is kept as the value it encodes
json_dumps(obj, positional) ==
    IF positional > 1 THEN Raise("TypeError") ELSE [py |-> "str", json |-> obj]

json_loads(json_str) == json_str.json

\* to_json passes indent and ensure_ascii to json.dumps by position
to_json(data) == json_dumps(asdict(data), 3)

\* from_json._construct for the class NodeData, whose field build_settings has the
\* dataclass BuildSettings as its type
construct(value, cls) ==
    IF cls = "NodeData" /\ value.py = "dict"
    THEN Instance("NodeData",
                  [value.items EXCEPT !.build_settings =
                      IF @.py = "dict" THEN Instance("BuildSettings", @.items) ELSE @])
    ELSE value

\* an exception raised while the argument was computed leaves from_json uncalled
from_json(json_str, data_class) ==
    IF json_str.py = "raised" THEN json_str
    ELSE construct(json_loads(json_str), data_class)

(***************************************************************************)
(* datas.py: the messages on the two queues.                               *)
(***************************************************************************)
NoName == <<0, 0>>

SubprocessLogData(text, name) ==
    [type |-> "log", index |-> -1, log |-> [text |-> text, name |-> name]]

SubprocessResponseData(index, result) ==
    [type |-> "response", index |-> index, result |-> result]

QUIT == [type |-> "QUIT"]

CommandType == {"cmd", "script", "other"}

\* datas.CommandData; the display name <<g, k>> stands for the text that names step
\* k of the g-th node group of the plan
CommandData(type, cmd, display_name) ==
    [type |-> type, cmd |-> cmd, display_name |-> display_name]

NodeCommands(index, node_data_ref, cmd_list) ==
    [index |-> index, node_data |-> node_data_ref, cmd_list |-> cmd_list]

ProjectCommands(start_node_id, node_commands_list) ==
    [type |-> "ProjectCommands", start_node_id |-> start_node_id,
     node_commands_list |-> node_commands_list]

\* every plan of at most MaxGroups groups of at most MaxCmds steps each
Plans ==
    {ProjectCommands(-1,
        [g \in 1..Len(groups) |->
            NodeCommands(g, g,
                [k \in 1..Len(groups[g]) |->
                    CommandData(groups[g][k], "command", <<g, k>>)])]) :
        groups \in ListsUpTo(ListsUpTo(CommandType, MaxCmds), MaxGroups)}

(***************************************************************************)
(* What running one step does: whether exec() or subprocess.run raised,    *)
(* and the return code and the captured output of the child.               *)
(***************************************************************************)
Raised == {"none", "Exception", "BaseException"}

Texts == {"", "text"}

RunResults(cmd_data) ==
    IF cmd_data.type = "script"
    THEN \* exec(): runs to its end, or raises any exception (SystemExit too)
         [raised : Raised, returncode : {0}, stdout : Texts, stderr : {""}]
    ELSE IF cmd_data.type = "cmd"
    THEN \* subprocess.run: returns a CompletedProcess or raises OSError
         [raised : {"none", "Exception"}, returncode : {0, 1},
          stdout : Texts, stderr : Texts]
    ELSE [raised : {"none"}, returncode : {0}, stdout : {""}, stderr : {""}]

(***************************************************************************)
(* CommandExecutor.execute: the log events it puts, whether it returns     *)
(* True, and whether an exception leaves it (except Exception catches no   *)
(* BaseException).                                                         *)
(***************************************************************************)
Verdict(logs, ok) == [logs |-> logs, ok |-> ok, escaped |-> FALSE]

Escaped(logs) == [logs |-> logs, ok |-> FALSE, escaped |-> TRUE]

OutputLog(text) ==
    IF text # "" THEN <<SubprocessLogData(text, NoName)>> ELSE <<>>

ExceptionLog(cmd_data) ==
    SubprocessLogData("Exception while executing command", cmd_data.display_name)

\* execute as it would be with the verdict taken from the child's error output
execute_FailsOnStderr(cmd_data, run) ==
    IF cmd_data.type = "script"
    THEN LET started == <<SubprocessLogData("Executing script", cmd_data.display_name)>>
         IN  IF run.raised = "BaseException"
             THEN Escaped(started)
             ELSE IF run.raised = "Exception"
             THEN Verdict(Append(started, ExceptionLog(cmd_data)), FALSE)
             ELSE Verdict(started \o OutputLog(run.stdout) \o
                          <<SubprocessLogData("Script executed successfully",
                                              cmd_data.display_name)>>, TRUE)
    ELSE IF cmd_data.type = "cmd"
    THEN LET started == <<SubprocessLogData("Executing command", cmd_data.display_name)>>
             output == OutputLog(run.stdout) \o OutputLog(run.stderr)
         IN  IF run.raised = "Exception"
             THEN Verdict(Append(started, ExceptionLog(cmd_data)), FALSE)
             ELSE IF run.stderr = ""
             THEN Verdict(started \o output \o
                          <<SubprocessLogData("Command succeeded",
                                              cmd_data.display_name)>>, TRUE)
             ELSE Verdict(started \o output \o
                          <<SubprocessLogData("Command failed, returncode="
                                                  \o ToString(run.returncode),
                                              cmd_data.display_name)>>, FALSE)
    ELSE Verdict(<<SubprocessLogData("Unknown command type", cmd_data.display_name)>>,
                 FALSE)

execute(cmd_data, run) ==
    IF cmd_data.type = "script"
    THEN LET started == <<SubprocessLogData("Executing script", cmd_data.display_name)>>
         IN  IF run.raised = "BaseException"
             THEN Escaped(started)
             ELSE IF run.raised = "Exception"
             THEN Verdict(Append(started, ExceptionLog(cmd_data)), FALSE)
             ELSE Verdict(started \o OutputLog(run.stdout) \o
                          <<SubprocessLogData("Script executed successfully",
                                              cmd_data.display_name)>>, TRUE)
    ELSE IF cmd_data.type = "cmd"
    THEN LET started == <<SubprocessLogData("Executing command", cmd_data.display_name)>>
             output == OutputLog(run.stdout) \o OutputLog(run.stderr)
         IN  IF run.raised = "Exception"
             THEN Verdict(Append(started, ExceptionLog(cmd_data)), FALSE)
             ELSE IF run.returncode = 0
             THEN Verdict(started \o output \o
                          <<SubprocessLogData("Command succeeded",
                                              cmd_data.display_name)>>, TRUE)
             ELSE Verdict(started \o output \o
                          <<SubprocessLogData("Command failed, returncode="
                                                  \o ToString(run.returncode),
                                              cmd_data.display_name)>>, FALSE)
    ELSE Verdict(<<SubprocessLogData("Unknown command type", cmd_data.display_name)>>,
                 FALSE)

(***************************************************************************)
(* worker_main.  The loop over the node groups of a plan, cut at the calls *)
(* of executor.execute: W is the worker's local state with the events it   *)
(* has put.                                                                *)
(***************************************************************************)
Put(W, events) == [W EXCEPT !.result_queue = @ \o events]

RECURSIVE enterGroup(_)
\* the for loop from the head of group W.idx to the next call of execute, or to the
\* end of the loop and the whole-plan result
enterGroup(W) ==
    LET groups == W.task.node_commands_list
    IN  IF W.idx >= Len(groups)
        THEN \* the loop ended with build_failed = False
             [Put(W, <<SubprocessLogData("All commands succeeded!", NoName),
                       SubprocessResponseData(-1, TRUE)>>)
                EXCEPT !.worker = "get"]
        ELSE IF groups[W.idx + 1].cmd_list = <<>>
        THEN \* no step: node_failed stays False
             enterGroup([Put(W, <<SubprocessResponseData(W.idx, TRUE)>>)
                            EXCEPT !.idx = @ + 1])
        ELSE [W EXCEPT !.worker = "execute", !.cmd_pos = 1]

\* ok = executor.execute(cmdData) has returned: the rest of the loop body
afterExecute_ContinueAfterFailure(W, ok) ==
    LET cmd_list == W.task.node_commands_list[W.idx + 1].cmd_list
    IN  IF W.cmd_pos < Len(cmd_list)
        THEN [W EXCEPT !.cmd_pos = @ + 1]
        ELSE enterGroup([Put(W, <<SubprocessResponseData(W.idx, ok)>>)
                            EXCEPT !.idx = @ + 1])

\* the rest of the loop body as it would be if the worker looked for the quit token
\* after every step
afterExecute_ChecksQuit(W, ok) ==
    LET cmd_list == W.task.node_commands_list[W.idx + 1].cmd_list
    IN  IF QUIT \in Range(task_queue)
        THEN [W EXCEPT !.worker = "get"]
        ELSE IF ~ok
        THEN [Put(W, <<SubprocessResponseData(W.idx, FALSE),
                       SubprocessResponseData(-1, FALSE)>>)
                EXCEPT !.worker = "get"]
        ELSE IF W.cmd_pos < Len(cmd_list)
        THEN [W EXCEPT !.cmd_pos = @ + 1]
        ELSE enterGroup([Put(W, <<SubprocessResponseData(W.idx, TRUE)>>)
                            EXCEPT !.idx = @ + 1])

afterExecute(W, ok) ==
    LET cmd_list == W.task.node_commands_list[W.idx + 1].cmd_list
    IN  IF ~ok
        THEN \* node_failed, build_failed: both loops are left
             [Put(W, <<SubprocessResponseData(W.idx, FALSE),
                       SubprocessResponseData(-1, FALSE)>>)
                EXCEPT !.worker = "get"]
        ELSE IF W.cmd_pos < Len(cmd_list)
        THEN [W EXCEPT !.cmd_pos = @ + 1]
        ELSE enterGroup([Put(W, <<SubprocessResponseData(W.idx, TRUE)>>)
                            EXCEPT !.idx = @ + 1])

Worker == [worker |-> worker, task |-> task, idx |-> idx, cmd_pos |-> cmd_pos,
           result_queue |-> result_queue]

SetWorker(W) ==
    /\ worker' = W.worker
    /\ task' = W.task
    /\ idx' = W.idx
    /\ cmd_pos' = W.cmd_pos
    /\ result_queue' = W.result_queue

NoTask == [type |-> "none", start_node_id |-> -1, node_commands_list |-> <<>>]

\* worker_main up to the first task_queue.get() (os.name is not "nt")
WorkerStart ==
    /\ worker = "init"
    /\ SetWorker([Put(Worker, <<SubprocessLogData("Worker process started.", NoName)>>)
                     EXCEPT !.worker = "get"])
    /\ UNCHANGED <<task_queue, graphVars, windowVars>>

\* task = task_queue.get() returns; the loop body up to the next call that blocks
WorkerGetTask ==
    /\ worker = "get"
    /\ task_queue # <<>>
    /\ task_queue' = Tail(task_queue)
    /\ LET t == Head(task_queue)
       IN  IF t.type = "QUIT"
           THEN SetWorker([Put(Worker,
                               <<SubprocessLogData("Received quit command, exiting...", NoName),
                                 SubprocessLogData("Worker process finished.", NoName)>>)
                              EXCEPT !.worker = "finished"])
           ELSE IF t.type = "ProjectCommands"
           THEN SetWorker(enterGroup(
                    [Put(Worker, <<SubprocessLogData("Start executing ProjectCommands...",
                                                     NoName)>>)
                        EXCEPT !.task = t, !.idx = 0, !.cmd_pos = 0]))
           ELSE SetWorker(Put(Worker,
                    <<SubprocessLogData("Received unknown task object, ignoring...",
                                        NoName)>>))
    /\ UNCHANGED <<graphVars, windowVars>>

\* executor.execute(cmdData) runs the step and worker_main acts on what it returns
WorkerExecute ==
    /\ worker = "execute"
    /\ LET cmd_data == task.node_commands_list[idx + 1].cmd_list[cmd_pos]
       IN  \E run \in RunResults(cmd_data) :
               LET r == execute(cmd_data, run)
               IN  IF r.escaped
                   THEN \* neither except clause catches it: the process ends
                        SetWorker([Put(Worker, r.logs) EXCEPT !.worker = "died"])
                   ELSE SetWorker(afterExecute(Put(Worker, r.logs), r.ok))
    /\ UNCHANGED <<task_queue, graphVars, windowVars>>

\* NodeEditorWindow.stopWorkerProcess, while the worker is alive
IsAlive == worker \in {"init", "get", "execute"}

\* NodeEditorWindow.closeEvent: stopWorkerProcess stops the listener thread if one is
\* kept and, if a process is kept and alive, puts "QUIT" and waits in join
CloseEvent ==
    /\ worker_proc \in {"None", "started"}
    /\ result_thread' = 0
    /\ IF worker_proc = "started" /\ IsAlive
       THEN /\ task_queue' = Append(task_queue, QUIT)
            /\ worker_proc' = "joining"
       ELSE /\ worker_proc' = "None"
            /\ UNCHANGED task_queue
    /\ UNCHANGED <<result_queue, worker, task, idx, cmd_pos, graphVars, current_node, combo_generator,
                   edit_start_node_id, messages, buttons_enabled, spawned, build_dirs, saved_file, runVars>>

\* stopWorkerProcess, lines 295-299: join returns because the process has ended; when
\* onWorkerResponse made the call it goes on to enable the build buttons
JoinReturns ==
    /\ worker_proc \in {"joining", "stopping"}
    /\ ~IsAlive
    /\ worker_proc' = "None"
    /\ buttons_enabled' = (buttons_enabled \/ worker_proc = "stopping")
    /\ UNCHANGED <<workerVars, graphVars, current_node, combo_generator, edit_start_node_id, messages,
                   result_thread, spawned, build_dirs, saved_file, runVars>>

\* join times out and the process is dropped without terminate()
JoinTimeout_NoTerminate ==
    /\ worker_proc \in {"joining", "stopping"}
    /\ IsAlive
    /\ worker_proc' = "None"
    /\ buttons_enabled' = (buttons_enabled \/ worker_proc = "stopping")
    /\ UNCHANGED <<workerVars, graphVars,
                   current_node, combo_generator, edit_start_node_id, messages,
                   result_thread, spawned, build_dirs, saved_file, runVars>>

\* stopWorkerProcess, lines 295-299: join times out and the process is terminated
JoinTimeout ==
    /\ worker_proc \in {"joining", "stopping"}
    /\ IsAlive
    /\ worker' = "terminated"
    /\ worker_proc' = "None"
    /\ buttons_enabled' = (buttons_enabled \/ worker_proc = "stopping")
    /\ UNCHANGED <<task_queue, result_queue, task, idx, cmd_pos, graphVars,
                   current_node, combo_generator, edit_start_node_id, messages,
                   result_thread, spawned, build_dirs, saved_file, runVars>>

(***************************************************************************)
(* The operations on the scene as steps of the program.                    *)
(***************************************************************************)
Op(name, a, b) == [op |-> name, a |-> a, b |-> b]

\* the node ids of the nodes of a scene
NodeIds(S) == {S.node_data[n].node_id : n \in Range(S.nodes)}

SetSceneFields(S) ==
    /\ nodes' = S.nodes
    /\ edges' = S.edges
    /\ node_data' = S.node_data
    /\ nodeCounter' = S.nodeCounter
    /\ notified' = S.notified

\* assigned_ids is history: the ids nodes have had since the graph was loaded
SetScene(S) ==
    /\ SetSceneFields(S)
    /\ assigned_ids' = assigned_ids \cup NodeIds(S)

AddNewNode ==
    /\ Len(nodes) < MaxNodes
    /\ nodeCounter <= MaxCounter
    /\ SetScene(addNewNode(Scene, NodeTitle(nodeCounter), <<>>, "", None))
    /\ lastOp' = Op("addNewNode", NewHandle(nodes), 0)
    /\ UNCHANGED <<workerVars, windowVars>>

RemoveNode ==
    \E n \in Range(nodes) :
        /\ SetScene(removeNode(Scene, n))
        /\ lastOp' = Op("removeNode", n, Len(edges))
        /\ UNCHANGED <<workerVars, windowVars>>

AddEdge ==
    \E src \in Range(nodes), dst \in Range(nodes) :
        /\ Len(edges) < MaxEdges
        /\ SetScene(addEdge(Scene, src, dst))
        /\ lastOp' = Op("addEdge", src, dst)
        /\ UNCHANGED <<workerVars, windowVars>>

RemoveEdge ==
    \E e \in Range(edges) :
        /\ SetScene(removeEdge(Scene, e))
        /\ lastOp' = Op("removeEdge", e[1], e[2])
        /\ UNCHANGED <<workerVars, windowVars>>

ClearScene ==
    /\ nodes # <<>>
    /\ SetScene(clearScene(Scene))
    /\ lastOp' = Op("clearScene", 0, 0)
    /\ UNCHANGED <<workerVars, windowVars>>

LoadProjectFromJson ==
    \E file \in ProjectFile :
        /\ SetSceneFields(loadProjectFromJson(Scene, file))
        /\ assigned_ids' = NodeIds(loadProjectFromJson(Scene, file))
        /\ lastOp' = Op("loadProjectFromJson", file.nodes, file.edges)
        /\ UNCHANGED <<workerVars, windowVars>>

(***************************************************************************)
(* NodeEditorWindow: what the build handlers read.                         *)
(***************************************************************************)
\* a project path is empty, names no directory, names a directory without
\* CMakeLists.txt, or names a directory with it
PathKind == {"", "not a directory", "no CMakeLists.txt", "project"}

IsDir(project_dir) == project_dir \in {"no CMakeLists.txt", "project"}

HasCMakeLists(project_dir) == project_dir = "project"

\* str.strip() of a script text: "", blank, or code
Strip(text) == IF text = " " THEN "" ELSE text

\* the text of the Start Node ID field: blank, the decimal form of n, or no number
BlankText == [kind |-> "blank", n |-> 0]

InvalidText == [kind |-> "invalid", n |-> 0]

NumberText(n) == [kind |-> "int", n |-> n]

StartTexts == {BlankText, InvalidText} \cup {NumberText(n) : n \in 1..(MaxBuildNodes + 1)}

(***************************************************************************)
(* NodeEditorWindow.onBuildAll, lines 669-683: the start node and its      *)
(* index in the sorted nodes.                                              *)
(***************************************************************************)
startNode_NotFoundSkipsFirst(sorted_nodes, data, text) ==
    IF text.kind = "blank"
    THEN [start_id |-> -1, start_index |-> 0, messages |-> <<>>]
    ELSE IF text.kind = "invalid"
    THEN [start_id |-> -1, start_index |-> 0,
          messages |-> <<"Start Node ID invalid, building from beginning.">>]
    ELSE LET found == {i \in 1..Len(sorted_nodes) :
                           data[sorted_nodes[i]].node_id = text.n}
         IN  IF found = {}
             THEN [start_id |-> -1, start_index |-> 1,
                   messages |-> <<"Node ID not found, building from beginning.">>]
             ELSE [start_id |-> text.n,
                   start_index |-> (CHOOSE i \in found : \A j \in found : i <= j) - 1,
                   messages |-> <<>>]

\* the start node as it would be with the slice starting after the node found
startNode_SliceExcludesStart(sorted_nodes, data, text) ==
    IF text.kind = "blank"
    THEN [start_id |-> -1, start_index |-> 0, messages |-> <<>>]
    ELSE IF text.kind = "invalid"
    THEN [start_id |-> -1, start_index |-> 0,
          messages |-> <<"Start Node ID invalid, building from beginning.">>]
    ELSE LET found == {i \in 1..Len(sorted_nodes) :
                           data[sorted_nodes[i]].node_id = text.n}
         IN  IF found = {}
             THEN [start_id |-> -1, start_index |-> 0,
                   messages |-> <<"Node ID not found, building from beginning.">>]
             ELSE [start_id |-> text.n,
                   start_index |-> (CHOOSE i \in found : \A j \in found : i <= j),
                   messages |-> <<>>]

startNode(sorted_nodes, data, text) ==
    IF text.kind = "blank"
    THEN [start_id |-> -1, start_index |-> 0, messages |-> <<>>]
    ELSE IF text.kind = "invalid"
    THEN [start_id |-> -1, start_index |-> 0,
          messages |-> <<"Start Node ID invalid, building from beginning.">>]
    ELSE LET found == {i \in 1..Len(sorted_nodes) :
                           data[sorted_nodes[i]].node_id = text.n}
         IN  IF found = {}
             THEN [start_id |-> -1, start_index |-> 0,
                   messages |-> <<"Node ID not found, building from beginning.">>]
             ELSE [start_id |-> text.n,
                   start_index |-> (CHOOSE i \in found : \A j \in found : i <= j) - 1,
                   messages |-> <<>>]

(***************************************************************************)
(* The body of the loop of onBuildAll (lines 692-779) and of onBuildNode   *)
(* (lines 814-890) for one node: the message of a failed check, or the     *)
(* NodeCommands of the node; g is the place of the group in the plan.      *)
(***************************************************************************)
validate_NoCMakeListsCheck(d) ==
    IF d.project_path = "" \/ ~IsDir(d.project_path)
    THEN "has invalid project path."
    ELSE ""

\* lines 713-723 (and 833-841 in onBuildNode): the message of the check that fails, or ""
validate(d) ==
    IF d.project_path = "" \/ ~IsDir(d.project_path)
    THEN "has invalid project path."
    ELSE IF ~HasCMakeLists(d.project_path)
    THEN "CMakeLists.txt not found."
    ELSE ""

nodeCommands_BlankScriptKept(node_obj, d, g) ==
    LET pre == IF d.code_before_build # ""
               THEN <<"script">> ELSE <<>>
        post == IF d.code_after_install # ""
                THEN <<"script">> ELSE <<>>
        types == pre \o <<"cmd", "cmd", "cmd">> \o post
        cmds == (IF pre # <<>> THEN <<"code_before_build">> ELSE <<>>)
                \o <<"configure", "build", "install">>
                \o (IF post # <<>> THEN <<"code_after_install">> ELSE <<>>)
    IN  IF validate(d) # ""
        THEN [ok |-> FALSE, message |-> validate(d)]
        ELSE [ok |-> TRUE,
              node_cmd |-> NodeCommands(d.node_id, node_obj,
                  [k \in 1..Len(types) |-> CommandData(types[k], cmds[k], <<g, k>>)])]

nodeCommands(node_obj, d, g) ==
    LET pre == IF Strip(d.code_before_build) # ""
               THEN <<"script">> ELSE <<>>
        post == IF Strip(d.code_after_install) # ""
                THEN <<"script">> ELSE <<>>
        types == pre \o <<"cmd", "cmd", "cmd">> \o post
        cmds == (IF pre # <<>> THEN <<"code_before_build">> ELSE <<>>)
                \o <<"configure", "build", "install">>
                \o (IF post # <<>> THEN <<"code_after_install">> ELSE <<>>)
    IN  IF validate(d) # ""
        THEN [ok |-> FALSE, message |-> validate(d)]
        ELSE [ok |-> TRUE,
              node_cmd |-> NodeCommands(d.node_id, node_obj,
                  [k \in 1..Len(types) |-> CommandData(types[k], cmds[k], <<g, k>>)])]

RECURSIVE buildCommands(_, _, _, _)
\* for node_obj in sorted_nodes[start_index:]: ... ; the loop returns at the first node
\* that fails a check, after os.makedirs has run for the nodes before it
buildCommands(todo, data, list, made) ==
    IF todo = <<>>
    THEN [ok |-> TRUE, node_commands_list |-> list, made |-> made, messages |-> <<>>]
    ELSE LET nc == nodeCommands(Head(todo), data[Head(todo)], Len(list) + 1)
         IN  IF ~nc.ok
             THEN [ok |-> FALSE, node_commands_list |-> list, made |-> made,
                   messages |-> <<nc.message>>]
             ELSE buildCommands(Tail(todo), data, Append(list, nc.node_cmd),
                                made \cup {Head(todo)})

(***************************************************************************)
(* NodeEditorWindow.onBuildAll up to line 783: the messages shown, the     *)
(* build directories made, and the plan to submit, if any.                 *)
(***************************************************************************)
NoSubmit(msgs, made) ==
    [submit |-> FALSE, plan |-> NoTask, messages |-> msgs, made |-> made]

onBuildAll(ns, es, data, text) ==
    LET sorted_nodes == topologicalSort(ns, es)
    IN  IF sorted_nodes.isNone
        THEN NoSubmit(<<"Detected circular dependency, cannot build.">>, {})
        ELSE LET start == startNode(sorted_nodes.list, data, text)
                 todo == SubSeq(sorted_nodes.list, start.start_index + 1,
                                Len(sorted_nodes.list))
                 built == buildCommands(todo, data, <<>>, {})
             IN  IF ~built.ok
                 THEN NoSubmit(start.messages \o built.messages, built.made)
                 ELSE IF built.node_commands_list = <<>>
                 THEN NoSubmit(Append(start.messages, "No commands to build."),
                               built.made)
                 ELSE [submit |-> TRUE,
                       plan |-> ProjectCommands(start.start_id,
                                                built.node_commands_list),
                       messages |-> start.messages, made |-> built.made]

(***************************************************************************)
(* The stage filter of the plan compiler.  The handlers above take no      *)
(* stage and emit every step; the filter is the gate the specification     *)
(* puts on each step of a group: the pre-build script and configure belong *)
(* to the stages configure and all, build to build and all, install and    *)
(* the post-install script to install and all.  A group that loses all its *)
(* steps stays in the plan.                                                *)
(***************************************************************************)
Stages == {"configure", "build", "install", "all"}

StepStages(cmd) ==
    IF cmd \in {"code_before_build", "configure"} THEN {"configure", "all"}
    ELSE IF cmd = "build" THEN {"build", "all"}
    ELSE {"install", "all"}

stageFilter_ScriptsInEveryStage(node_commands_list, stage) ==
    [i \in 1..Len(node_commands_list) |->
        [node_commands_list[i] EXCEPT
            !.cmd_list = SelectSeq(@, LAMBDA c : \/ stage \in StepStages(c.cmd)
                                                \/ c.type = "script")]]

stageFilter(node_commands_list, stage) ==
    [i \in 1..Len(node_commands_list) |->
        [node_commands_list[i] EXCEPT
            !.cmd_list = SelectSeq(@, LAMBDA c : stage \in StepStages(c.cmd))]]

(***************************************************************************)
(* NodeEditorWindow.onBuildNode up to line 892.                            *)
(***************************************************************************)
onBuildNode(node_obj, data) ==
    IF node_obj = 0
    THEN NoSubmit(<<"No node selected.">>, {})
    ELSE LET nc == nodeCommands(node_obj, data[node_obj], 1)
         IN  IF ~nc.ok
             THEN NoSubmit(<<nc.message>>, {})
             ELSE [submit |-> TRUE,
                   plan |-> ProjectCommands(data[node_obj].node_id, <<nc.node_cmd>>),
                   messages |-> <<>>, made |-> {node_obj}]

(***************************************************************************)
(* The argument lists of the three native steps of a node, lines 725-768   *)
(* of onBuildAll (847-880 of onBuildNode); the steps named "configure",    *)
(* "build" and "install" in a NodeCommands stand for these lists.          *)
(***************************************************************************)
\* os.path.join(a, b) for a relative b and an a that does not end in a separator
join(a, b) == IF a = "" THEN b ELSE a \o "/" \o b

node_build_dir(d) ==
    join(join(d.build_settings.build_dir, d.title), d.build_settings.build_type)

\* the configure list as it would be with the generator flag appended like the others
cmd_configure_GeneratorAppended(d) ==
    LET bs == d.build_settings
        flag(name, value) == IF value # "" THEN <<name \o value>> ELSE <<>>
    IN  <<"cmake", "-S", d.project_path, "-B", node_build_dir(d),
          "-DCMAKE_BUILD_TYPE:STRING=" \o bs.build_type,
          "-DCMAKE_INSTALL_PREFIX=" \o join(bs.install_dir, bs.build_type)>>
        \o (IF bs.generator # "" THEN <<"-G", bs.generator>> ELSE <<>>)
        \o flag("-DCMAKE_C_COMPILER:FILEPATH=", bs.c_compiler)
        \o flag("-DCMAKE_CXX_COMPILER:FILEPATH=", bs.cxx_compiler)
        \o flag("-DCMAKE_TOOLCHAIN_FILE=", bs.toolchain_file)
        \o flag("-DCMAKE_PREFIX_PATH=", bs.prefix_path)
        \o d.cmake_options

cmd_configure(d) ==
    LET bs == d.build_settings
        base == <<"cmake", "-S", d.project_path, "-B", node_build_dir(d),
                  "-DCMAKE_BUILD_TYPE:STRING=" \o bs.build_type,
                  "-DCMAKE_INSTALL_PREFIX=" \o join(bs.install_dir, bs.build_type)>>
        \* cmd_configure[1:1] = ["-G", generator]
        with_generator == IF bs.generator # ""
                          THEN <<Head(base), "-G", bs.generator>> \o Tail(base)
                          ELSE base
        flag(name, value) == IF value # "" THEN <<name \o value>> ELSE <<>>
    IN  with_generator
        \o flag("-DCMAKE_C_COMPILER:FILEPATH=", bs.c_compiler)
        \o flag("-DCMAKE_CXX_COMPILER:FILEPATH=", bs.cxx_compiler)
        \o flag("-DCMAKE_TOOLCHAIN_FILE=", bs.toolchain_file)
        \o flag("-DCMAKE_PREFIX_PATH=", bs.prefix_path)
        \o d.cmake_options

\* cpu_count is what multiprocessing.cpu_count() returns
cmd_build(d, cpu_count) ==
    <<"cmake", "--build", node_build_dir(d), "--config", d.build_settings.build_type,
      "--parallel", ToString(cpu_count)>>

cmd_install(d) ==
    <<"cmake", "--install", node_build_dir(d), "--config", d.build_settings.build_type>>

\* no run has been dropped
NoOrphan == [active |-> FALSE]

\* the line the submit code writes to the output pane ("ProjectCommands" in onBuildAll,
\* "NodeCommands" in onBuildNode); a line of the pane is a text with the step it names
SentLine == [text |-> "[Main] Sent commands to worker.", name |-> NoName]

\* the main thread is in no handler: stopWorkerProcess is not waiting in join
MainThreadFree == worker_proc \in {"None", "started"}

(***************************************************************************)
(* onBuildAll lines 661 and 785-806, onBuildNode lines 812 and 894-911:    *)
(* the output pane is cleared; on a submission the buttons are disabled,   *)
(* new queues are made, a worker process and a listener thread are started *)
(* over them, the plan is put on the task queue and a line is written to   *)
(* the pane.  current_progress is not assigned.  A worker and a listener   *)
(* that are still kept are dropped without being stopped (orphan, with    *)
(* the events still on its queue): they run on and the listener's signals  *)
(* stay connected to the window's slots.  One dropped run is followed.     *)
(***************************************************************************)
Finish(r) ==
    /\ MainThreadFree
    /\ messages' = r.messages
    /\ build_dirs' = build_dirs \cup r.made
    /\ IF r.submit
       THEN /\ spawned < MaxRuns
            /\ result_thread # 0 => ~orphan.active
            /\ buttons_enabled' = FALSE
            /\ task_queue' = <<r.plan>>
            /\ result_queue' = <<>>
            /\ worker' = "init"
            /\ task' = NoTask
            /\ idx' = 0
            /\ cmd_pos' = 0
            /\ spawned' = spawned + 1
            /\ result_thread' = spawned + 1
            /\ worker_proc' = "started"
            /\ taken' = 0
            /\ build_output_text' = <<SentLine>>
            /\ orphan' = IF result_thread # 0
                         THEN [active |-> TRUE, worker |-> worker,
                               result_queue |-> SubSeq(result_queue, taken + 1,
                                                       Len(result_queue))]
                         ELSE orphan
            /\ UNCHANGED <<signals, current_progress>>
       ELSE /\ build_output_text' = IF r.messages = <<"No node selected.">>
                                    THEN build_output_text
                                    ELSE <<>>
            /\ UNCHANGED <<buttons_enabled, workerVars, spawned, result_thread,
                           worker_proc, taken, signals, current_progress, orphan>>

\* the Build Project button or the Project menu's Full Build
OnBuildAll ==
    /\ Finish(onBuildAll(nodes, edges, node_data, edit_start_node_id))
    /\ lastOp' = Op("onBuildAll", 0, 0)
    /\ UNCHANGED <<sceneVars, current_node, combo_generator, edit_start_node_id, saved_file>>

\* the Project menu's Partial Build: the user picks a node in the dialog or cancels it
OnPartialBuild ==
    IF nodes = <<>>
    THEN /\ messages' = <<"No nodes available.">>
         /\ lastOp' = Op("onPartialBuild", 0, 0)
         /\ UNCHANGED <<sceneVars, workerVars,
                        current_node, combo_generator, edit_start_node_id, buttons_enabled,
                        result_thread, worker_proc, spawned, build_dirs, saved_file, runVars>>
    ELSE \/ \E n \in Range(nodes) :
                /\ edit_start_node_id' = NumberText(node_data[n].node_id)
                /\ Finish(onBuildAll(nodes, edges, node_data, edit_start_node_id'))
                /\ lastOp' = Op("onPartialBuild", n, 0)
                /\ UNCHANGED <<sceneVars, current_node, combo_generator, saved_file>>
         \/ /\ lastOp' = Op("onPartialBuild", 0, 0)
            /\ UNCHANGED <<sceneVars,
                           workerVars, windowVars>>

\* the Build Node button
OnBuildNode ==
    /\ buttons_enabled
    /\ Finish(onBuildNode(current_node, node_data))
    /\ lastOp' = Op("onBuildNode", current_node, 0)
    /\ UNCHANGED <<sceneVars, current_node, combo_generator, edit_start_node_id, saved_file>>

(***************************************************************************)
(* ResultListenerThread.run and the two slots its signals are connected    *)
(* to.  result_queue keeps every event the worker has put; taken counts    *)
(* the events the listener has got from it; signals holds the events that  *)
(* were emitted and wait for the main thread to run their slot.            *)
(***************************************************************************)
\* result_queue.get returns an event and the listener emits it
ListenerGet ==
    /\ result_thread # 0
    /\ taken < Len(result_queue)
    /\ Len(signals) < MaxPending
    /\ taken' = taken + 1
    /\ signals' = Append(signals, result_queue[taken + 1])
    /\ UNCHANGED <<graphVars, workerVars, current_node, combo_generator, edit_start_node_id, messages,
                   buttons_enabled, result_thread, worker_proc, spawned, build_dirs,
                   saved_file, current_progress, build_output_text, orphan>>

\* onWorkerLog run for a log event that other pending events precede
OnWorkerLog_OvertakesPending ==
    /\ MainThreadFree
    /\ \E i \in 1..Len(signals) :
           /\ signals[i].type = "log"
           /\ signals' = SubSeq(signals, 1, i - 1) \o SubSeq(signals, i + 1, Len(signals))
           /\ build_output_text' = Append(build_output_text, signals[i].log)
    /\ UNCHANGED <<graphVars, workerVars, current_node, combo_generator, edit_start_node_id, messages,
                   buttons_enabled, result_thread, worker_proc, spawned, build_dirs,
                   saved_file, taken, current_progress, orphan>>

\* onWorkerLog
OnWorkerLog ==
    /\ MainThreadFree
    /\ signals # <<>>
    /\ Head(signals).type = "log"
    /\ signals' = Tail(signals)
    /\ build_output_text' = Append(build_output_text, Head(signals).log)
    /\ UNCHANGED <<graphVars, workerVars, current_node, combo_generator, edit_start_node_id, messages,
                   buttons_enabled, result_thread, worker_proc, spawned, build_dirs,
                   saved_file, taken, current_progress, orphan>>

\* the lines onWorkerResponse writes to the output pane
responseText(respData) ==
    <<[text |-> "[Worker Response idx=" \o ToString(respData.index) \o "] Command " \o
                (IF respData.result THEN "SUCCESS" ELSE "FAILED"),
       name |-> NoName]>> \o
    (IF respData.index = -1
     THEN <<[text |-> IF respData.result THEN "Build Completed!" ELSE "Build Failed!",
             name |-> NoName]>>
     ELSE <<>>)

\* onWorkerResponse.  On the whole-plan result it calls stopWorkerProcess, which stops
\* the listener kept in result_thread and, if the process kept in worker_proc is
\* alive, puts "QUIT" and waits in join; the buttons are enabled when it returns.
OnWorkerResponse ==
    /\ MainThreadFree
    /\ signals # <<>>
    /\ Head(signals).type = "response"
    /\ signals' = Tail(signals)
    /\ build_output_text' = build_output_text \o responseText(Head(signals))
    /\ current_progress' = IF Head(signals).index >= 0
                           THEN current_progress + 1
                           ELSE current_progress
    /\ IF Head(signals).index = -1
       THEN /\ result_thread' = 0
            /\ IF worker_proc = "started" /\ IsAlive
               THEN /\ task_queue' = Append(task_queue, QUIT)
                    /\ worker_proc' = "stopping"
                    /\ UNCHANGED buttons_enabled
               ELSE /\ worker_proc' = "None"
                    /\ buttons_enabled' = TRUE
                    /\ UNCHANGED task_queue
       ELSE UNCHANGED <<result_thread, worker_proc, buttons_enabled, task_queue>>
    /\ UNCHANGED <<graphVars, result_queue, worker, task, idx, cmd_pos, current_node, combo_generator,
                   edit_start_node_id, messages, spawned, build_dirs, saved_file,
                   taken, orphan>>

\* the listener of the dropped run gets an event from its queue and emits it
OrphanListenerGet ==
    /\ orphan.active
    /\ orphan.result_queue # <<>>
    /\ Len(signals) < MaxPending
    /\ signals' = Append(signals, Head(orphan.result_queue))
    /\ orphan' = [orphan EXCEPT !.result_queue = Tail(@)]
    /\ UNCHANGED <<graphVars, workerVars, current_node, combo_generator, edit_start_node_id, messages,
                   buttons_enabled, result_thread, worker_proc, spawned, build_dirs,
                   saved_file, taken, current_progress, build_output_text>>

\* the items of combo_generator (lines 437-442); the combo box is not editable
GeneratorItems ==
    {"Default (not specified)", "Visual Studio 17 2022", "Visual Studio 16 2019",
     "Ninja", "Unix Makefiles"}

\* updatePropertiesPanelFromNode, lines 591-595: findText and setCurrentIndex; with no
\* item of that text setCurrentText changes nothing in a combo box that is not editable
comboGeneratorFromNode(combo, generator) ==
    IF generator \in GeneratorItems THEN generator ELSE combo

\* what the creation dialog returned
DialogData(node_name, inherit_idx) == [node_name |-> node_name, inherit_idx |-> inherit_idx]

\* the outcome of a handler that raised: PyQt6 prints the traceback of an exception
\* that leaves a slot and aborts the application
RaisedInSlot == -1

Aborted == lastOp.op = "onAddNodeDialog" /\ lastOp.a = RaisedInSlot

\* NodeEditorWindow.onAddNodeDialog with what an accepted NodeCreationDialog returns:
\* the stripped name, the index of the node to inherit from (-1 for "None") and a
\* project path that onAccept found to hold a CMakeLists.txt.  getNodeData returns
\* the checked attributes as a list, so flags.get raises AttributeError whenever a
\* base node is chosen.  The new node is selected, which makes it the current node.
AddNodeDialog(node_names, inherit) ==
    \E node_name \in node_names, inherit_idx \in inherit :
        /\ ~Aborted
        /\ Len(nodes) < MaxBuildNodes
        /\ nodeCounter <= MaxCounter
        /\ inherit_idx < Len(nodes)
        /\ IF inherit_idx >= 0
           THEN /\ lastOp' = Op("onAddNodeDialog", RaisedInSlot,
                                DialogData(node_name, inherit_idx))
                /\ UNCHANGED <<sceneVars, workerVars, windowVars>>
           ELSE LET name == IF node_name = "" THEN NodeTitle(nodeCounter) ELSE node_name
                IN  IF \E n \in Range(nodes) : node_data[n].title = name
                    THEN /\ messages' = <<"Node name already exists.">>
                         /\ lastOp' = Op("onAddNodeDialog", 0,
                                         DialogData(node_name, inherit_idx))
                         /\ UNCHANGED <<sceneVars, workerVars, current_node, combo_generator,
                                        edit_start_node_id, buttons_enabled,
                                        result_thread, worker_proc, spawned, build_dirs, saved_file, runVars>>
                    ELSE /\ SetScene(addNewNode(Scene, name, <<>>, "project", None))
                         /\ current_node' = NewHandle(nodes)
                         /\ combo_generator' =
                                comboGeneratorFromNode(combo_generator,
                                    node_data'[NewHandle(nodes)].build_settings.generator)
                         /\ messages' = <<>>
                         /\ lastOp' = Op("onAddNodeDialog", NewHandle(nodes),
                                         DialogData(node_name, inherit_idx))
                         /\ UNCHANGED <<workerVars, edit_start_node_id, buttons_enabled,
                                        result_thread, worker_proc, spawned, build_dirs, saved_file, runVars>>

\* the dialog accepted with a blank name and nothing inherited
OnAddNodeDialog == AddNodeDialog({""}, {-1})

\* NodeEditorWindow.onApplyNodeProperties with the texts of the properties panel
ApplyNodeProperties(titles, project_paths, settings, scripts) ==
    \E text \in titles, new_proj_path \in project_paths, bs \in settings,
       py_before \in scripts, py_after \in scripts :
        /\ ~Aborted
        /\ current_node \in Range(nodes)
        /\ LET new_title == IF text = ""
                            THEN NodeTitle(node_data[current_node].node_id)
                            ELSE text
           IN  IF /\ text # ""
                  /\ \E n \in Range(nodes) \ {current_node} :
                         node_data[n].title = new_title
               THEN /\ messages' = <<"Node name already exists.">>
                    /\ lastOp' = Op("onApplyNodeProperties", 0, text)
                    /\ UNCHANGED node_data
               ELSE /\ node_data' =
                           [node_data EXCEPT ![current_node] =
                               [@ EXCEPT !.title = new_title,
                                         !.project_path = new_proj_path,
                                         !.build_settings =
                                             [bs EXCEPT !.generator = combo_generator],
                                         !.code_before_build = py_before,
                                         !.code_after_install = py_after]]
                    /\ messages' = <<>>
                    /\ lastOp' = Op("onApplyNodeProperties", current_node, text)
        /\ UNCHANGED <<nodes, edges, nodeCounter, notified, assigned_ids, workerVars,
                       current_node, combo_generator, edit_start_node_id, buttons_enabled,
                       result_thread, worker_proc, spawned, build_dirs, saved_file, runVars>>

\* Apply with a new project path and everything else as the panel showed it
OnApplyNodeProperties ==
    /\ current_node \in Range(nodes)
    /\ ApplyNodeProperties({node_data[current_node].title}, PathKind,
                           {node_data[current_node].build_settings}, {""})

\* the user picks an item of the generator combo box of the panel
OnPickGenerator ==
    \E item \in {"Default (not specified)", "Ninja"} :
        /\ current_node \in Range(nodes)
        /\ combo_generator' = item
        /\ lastOp' = Op("pickGenerator", item, 0)
        /\ UNCHANGED <<sceneVars, workerVars, current_node, edit_start_node_id, messages,
                       buttons_enabled, result_thread, worker_proc, spawned, build_dirs,
                       saved_file, runVars>>

\* Apply with every field as the panel shows it
OnApplyNodePanel ==
    /\ current_node \in Range(nodes)
    /\ ApplyNodeProperties({node_data[current_node].title},
                           {node_data[current_node].project_path},
                           {node_data[current_node].build_settings}, {""})

\* NodeEditorWindow.onSceneSelectionChanged: a node is selected, or none is
OnSceneSelectionChanged ==
    \E n \in Range(nodes) \cup {0} :
        /\ ~Aborted
        /\ current_node' = n
        /\ combo_generator' =
               IF n = 0 THEN combo_generator
               ELSE comboGeneratorFromNode(combo_generator,
                                           node_data[n].build_settings.generator)
        /\ lastOp' = Op("onSceneSelectionChanged", n, 0)
        /\ UNCHANGED <<sceneVars, workerVars,
                       edit_start_node_id, messages, buttons_enabled,
                       result_thread, worker_proc, spawned, build_dirs, saved_file, runVars>>

\* NodeEditorWindow.onDeleteNode
OnDeleteNode ==
    /\ ~Aborted
    /\ current_node \in Range(nodes)
    /\ SetScene(removeNode(Scene, current_node))
    /\ current_node' = 0
    /\ lastOp' = Op("onDeleteNode", current_node, 0)
    /\ UNCHANGED <<workerVars, combo_generator, edit_start_node_id, messages, buttons_enabled,
                   result_thread, worker_proc, spawned, build_dirs, saved_file, runVars>>

\* what the user types as a node name: nothing, a name of their own, or a name of
\* the form the fallback produces
TitleTexts == {"", "A", NodeTitle(2)}

\* the creation dialog accepted with any of the names, nothing inherited
OnAddNodeNamed == AddNodeDialog(TitleTexts, {-1})

\* the creation dialog accepted with a node chosen under "Inherit From"
OnAddNodeInherit == AddNodeDialog({""}, 0..(MaxBuildNodes - 1))

\* what the user puts into the build settings fields of the panel
PanelSettings ==
    {BuildSettings("cwd/build", "cwd/install", build_type, "cwd/install", "", "", "", "") :
        build_type \in {"Debug", "Release"}}

\* Apply with any of the names and build settings, the project path as it was
OnApplyNodeTitle ==
    /\ current_node \in Range(nodes)
    /\ ApplyNodeProperties(TitleTexts, {node_data[current_node].project_path},
                           PanelSettings, {""})

\* what the user puts into a script field: nothing, white space only, or code
ScriptTexts == {"", " ", "code"}

\* Apply with new script texts and everything else as the panel showed it
OnApplyNodeScripts ==
    /\ current_node \in Range(nodes)
    /\ ApplyNodeProperties({node_data[current_node].title},
                           {node_data[current_node].project_path},
                           {node_data[current_node].build_settings}, ScriptTexts)

\* no project file has been written
NoFile == [nodes |-> <<>>, edges |-> <<>>, start_node_id |-> [kind |-> "no file", n |-> 0]]

\* NodeEditorWindow.onSaveProject with a file name chosen
OnSaveProject ==
    /\ ~Aborted
    /\ saved_file' = saveProjectToJson(Scene, edit_start_node_id)
    /\ messages' = <<"Project has been saved!">>
    /\ lastOp' = Op("onSaveProject", 0, 0)
    /\ UNCHANGED <<sceneVars, workerVars, current_node, combo_generator, edit_start_node_id,
                   buttons_enabled, result_thread, worker_proc, spawned, build_dirs,
                   runVars>>

\* NodeEditorWindow.onLoadProject with one of the files chosen; the selection goes
\* with the nodes that clearScene removes
OnLoadProject(files) ==
    \E file \in files :
        /\ ~Aborted
        /\ SetSceneFields(loadProjectFromJson(Scene, file))
        /\ assigned_ids' = NodeIds(loadProjectFromJson(Scene, file))
        /\ edit_start_node_id' = file.start_node_id
        /\ current_node' = 0
        /\ messages' = <<"Project loaded!">>
        /\ lastOp' = Op("onLoadProject", file, 0)
        /\ UNCHANGED <<workerVars, combo_generator, buttons_enabled, result_thread, worker_proc, spawned,
                       build_dirs, saved_file, runVars>>

\* the file written last is loaded
OnLoadSavedProject == saved_file # NoFile /\ OnLoadProject({saved_file})

\* project files written by hand, without edges and without a start node id
HandWrittenFiles ==
    {[nodes |-> nds, edges |-> <<>>, start_node_id |-> BlankText] :
        nds \in ListsUpTo({FileNode(id) : id \in FileId}, MaxFileNodes) \ {<<>>}}

OnLoadHandWrittenProject == OnLoadProject(HandWrittenFiles)

\* the NodeData values the round trip through JSON is tried on
JsonNodeData ==
    {NodeData(node_id, title, cmake_options, project_path, bs, before, after) :
        node_id \in FileId, title \in {"Test", NodeTitle(1)},
        cmake_options \in {<<>>, <<"-DUSE_TEST=ON">>},
        project_path \in {"", "project"}, bs \in PanelSettings,
        before \in {"", "code"}, after \in {"", "code"}}

\* tests/test_datas.py: loaded = from_json(to_json(node), NodeData)
JsonRoundTrip ==
    \E d \in JsonNodeData :
        /\ lastOp' = Op("from_json(to_json)", NodeDataInstance(d),
                        from_json(to_json(NodeDataInstance(d)), "NodeData"))
        /\ UNCHANGED <<sceneVars, workerVars, windowVars>>

\* the user types into the Start Node ID field
EditStartNodeId ==
    \E text \in StartTexts :
        /\ edit_start_node_id' = text
        /\ lastOp' = Op("editStartNodeId", 0, 0)
        /\ UNCHANGED <<sceneVars, workerVars,
                       current_node, combo_generator, messages, buttons_enabled,
                       result_thread, worker_proc, spawned, build_dirs, saved_file, runVars>>

GraphInit ==
    /\ nodes = <<>>
    /\ edges = <<>>
    /\ node_data = [h \in Handle |-> NoData]
    /\ nodeCounter = 1
    /\ notified = FALSE
    /\ lastOp = Op("init", 0, 0)
    /\ assigned_ids = {}

\* no worker process has been started
WorkerNone ==
    /\ task_queue = <<>>
    /\ result_queue = <<>>
    /\ worker = "none"
    /\ task = NoTask
    /\ idx = 0
    /\ cmd_pos = 0

\* initStatusBar, which __init__ calls at line 165, is not part of the source: it is
\* taken to make the progress bar and to set current_progress to 0
RunInit ==
    /\ taken = 0
    /\ signals = <<>>
    /\ current_progress = 0
    /\ build_output_text = <<>>
    /\ orphan = NoOrphan

\* NodeEditorWindow.__init__
WindowInit ==
    /\ current_node = 0
    /\ combo_generator = "Default (not specified)"
    /\ edit_start_node_id = BlankText
    /\ messages = <<>>
    /\ buttons_enabled = TRUE
    /\ result_thread = 0
    /\ worker_proc = "None"
    /\ spawned = 0
    /\ build_dirs = {}
    /\ saved_file = NoFile
    /\ RunInit

Init == GraphInit /\ WorkerNone /\ WindowInit

Next ==
    \/ AddNewNode
    \/ RemoveNode
    \/ AddEdge
    \/ RemoveEdge
    \/ ClearScene
    \/ LoadProjectFromJson

Spec == Init /\ [][Next]_vars

(***************************************************************************)
(* The worker process on its own: it was started and handed one plan, as   *)
(* onBuildAll and onBuildNode do, and may be sent the quit token.          *)
(***************************************************************************)
\* a build handler has just started a worker process and put a plan on its queue
InitWorker ==
    /\ GraphInit
    /\ current_node = 0
    /\ combo_generator = "Default (not specified)"
    /\ edit_start_node_id = BlankText
    /\ messages = <<>>
    /\ buttons_enabled = FALSE
    /\ result_thread = 1
    /\ worker_proc = "started"
    /\ spawned = 1
    /\ build_dirs = {}
    /\ saved_file = NoFile
    /\ taken = 0
    /\ signals = <<>>
    /\ current_progress = 0
    /\ build_output_text = <<SentLine>>
    /\ orphan = NoOrphan
    /\ task_queue \in {<<plan>> : plan \in Plans}
    /\ result_queue = <<>>
    /\ worker = "init"
    /\ task = NoTask
    /\ idx = 0
    /\ cmd_pos = 0

NextWorker ==
    \/ WorkerStart
    \/ WorkerGetTask
    \/ WorkerExecute
    \/ CloseEvent
    \/ JoinReturns
    \/ JoinTimeout

SpecWorker == InitWorker /\ [][NextWorker]_vars

(***************************************************************************)
(* The way of the events of one run: the worker process with a plan of at  *)
(* most MaxDeliverSteps steps, the listener thread, the two slots, and the *)
(* window being closed.                                                    *)
(***************************************************************************)
InitDeliver ==
    /\ InitWorker
    /\ LET groups == Head(task_queue).node_commands_list
       IN  Cardinality(UNION {{<<g, k>> : k \in 1..Len(groups[g].cmd_list)} :
                                 g \in 1..Len(groups)}) <= MaxDeliverSteps

NextDeliver ==
    \/ WorkerStart
    \/ WorkerGetTask
    \/ WorkerExecute
    \/ ListenerGet
    \/ OnWorkerLog
    \/ OnWorkerResponse
    \/ CloseEvent
    \/ JoinReturns
    \/ JoinTimeout

SpecDeliver == InitDeliver /\ [][NextDeliver]_vars

(***************************************************************************)
(* A build run from the submission to the whole-plan result: the window    *)
(* with one node, its worker processes, its listeners and its slots.  Full *)
(* Build is chosen with no run kept or, from the menu, late in a run: the  *)
(* worker has put the whole-plan result and at most MaxBacklog events are  *)
(* still on the result queue.                                              *)
(***************************************************************************)
NextRun ==
    \/ (OnAddNodeDialog /\ MainThreadFree /\ nodes = <<>>)
    \/ (OnBuildAll /\ (result_thread # 0 =>
                           /\ worker = "get"
                           /\ task_queue = <<>>
                           /\ Len(result_queue) - taken <= MaxBacklog))
    \/ OnBuildNode
    \/ WorkerStart
    \/ WorkerGetTask
    \/ WorkerExecute
    \/ ListenerGet
    \/ OnWorkerLog
    \/ OnWorkerResponse
    \/ JoinReturns
    \/ JoinTimeout
    \/ OrphanListenerGet

SpecRun == Init /\ [][NextRun]_vars

(***************************************************************************)
(* The build handlers of the window on the graphs the user draws.  The     *)
(* project paths are edited before the first plan is submitted.            *)
(***************************************************************************)
NextBuild ==
    \/ OnAddNodeDialog
    \/ (OnApplyNodeProperties /\ spawned = 0)
    \/ (AddEdge /\ Len(edges) < MaxBuildEdges)
    \/ OnSceneSelectionChanged
    \/ EditStartNodeId
    \/ OnBuildAll
    \/ OnPartialBuild
    \/ OnBuildNode

SpecBuild == Init /\ [][NextBuild]_vars

(***************************************************************************)
(* The plans the build handlers compile from nodes with scripts.  The      *)
(* scripts of a node are edited while it is the node created last and      *)
(* before the first plan is submitted.                                     *)
(***************************************************************************)
NextCompile ==
    \/ OnAddNodeDialog
    \/ (OnApplyNodeScripts /\ spawned = 0)
    \/ (AddEdge /\ Len(edges) < MaxBuildEdges)
    \/ EditStartNodeId
    \/ OnBuildAll
    \/ OnBuildNode

SpecCompile == Init /\ [][NextCompile]_vars

(***************************************************************************)
(* Saving the graph and loading it again, and loading files written by     *)
(* hand.                                                                   *)
(***************************************************************************)
NextPersist ==
    \/ OnAddNodeDialog
    \/ (AddEdge /\ Len(edges) < MaxBuildEdges)
    \/ OnSceneSelectionChanged
    \/ OnDeleteNode
    \/ OnSaveProject
    \/ OnLoadSavedProject
    \/ OnLoadHandWrittenProject

SpecPersist == Init /\ [][NextPersist]_vars

(***************************************************************************)
(* The argument lists the build handlers compile for one validated node,   *)
(* over the build settings and cmake options a node can have.              *)
(***************************************************************************)
CommandNodeData ==
    {NodeData(1, NodeTitle(1), cmake_options, "project",
              BuildSettings("cwd/build", "cwd/install", build_type, prefix_path,
                            toolchain_file, generator, c_compiler, cxx_compiler), "", "") :
        cmake_options \in ListsUpTo({"-DUSE_TEST=ON", "-Wno-dev"}, 2),
        build_type \in {"Debug", "Release"}, prefix_path \in {"", "cwd/install"},
        toolchain_file \in {"", "toolchain.cmake"}, generator \in {"", "Ninja"},
        c_compiler \in {"", "gcc"}, cxx_compiler \in {"", "g++"}}

\* the three lists are compiled for a node d on a machine with cpu_count processors
CompileCommands ==
    \E d \in CommandNodeData, cpu_count \in {1, 8} :
        /\ lastOp' = Op("compileCommands", d,
                        [cpu_count |-> cpu_count,
                         configure |-> cmd_configure(d),
                         build |-> cmd_build(d, cpu_count),
                         install |-> cmd_install(d)])
        /\ UNCHANGED <<sceneVars, workerVars, windowVars>>

NextCommand == CompileCommands

SpecCommand == Init /\ [][NextCommand]_vars

(***************************************************************************)
(* CommandExecutor.execute on its own, over the ways a step can go: the    *)
(* child ends with return code 0, 1 or -9 (killed by a signal) or cannot   *)
(* be started, with every combination of empty and non-empty output.       *)
(***************************************************************************)
ChildResults(cmd_data) ==
    IF cmd_data.type = "cmd"
    THEN [raised : {"none", "Exception"}, returncode : {0, 1, -9},
          stdout : {"", "text", "more text"}, stderr : {"", "warning", "error"}]
    ELSE RunResults(cmd_data)

\* ok = executor.execute(cmdData) on a result queue that starts empty
Execute ==
    \E type \in CommandType, g \in 1..MaxGroups, k \in 1..MaxCmds :
        LET cmd_data == CommandData(type, "command", <<g, k>>)
        IN  \E run \in ChildResults(cmd_data) :
                /\ lastOp' = Op("execute", [cmd_data |-> cmd_data, run |-> run],
                                execute(cmd_data, run))
                /\ UNCHANGED <<sceneVars, workerVars, windowVars>>

NextExecute == Execute

SpecExecute == Init /\ [][NextExecute]_vars

(***************************************************************************)
(* The properties panel: nodes are created and selected, the generator is  *)
(* picked in the combo box, and the panel is applied as it stands.         *)
(***************************************************************************)
NextPanel ==
    \/ OnAddNodeDialog
    \/ OnSceneSelectionChanged
    \/ OnPickGenerator
    \/ OnApplyNodePanel

SpecPanel == Init /\ [][NextPanel]_vars

(***************************************************************************)
(* The JSON helpers of datas.py on NodeData values.                        *)
(***************************************************************************)
NextJson == JsonRoundTrip

SpecJson == Init /\ [][NextJson]_vars

(***************************************************************************)
(* Creating, renaming and deleting nodes through the window.               *)
(***************************************************************************)
NextNodes ==
    \/ OnAddNodeNamed
    \/ OnAddNodeInherit
    \/ OnApplyNodeTitle
    \/ OnSceneSelectionChanged
    \/ OnDeleteNode

SpecNodes == Init /\ [][NextNodes]_vars

(***************************************************************************)
(* Directed cycles, defined from reachability along the edges.             *)
(***************************************************************************)
Successors(es, X) == {e[2] : e \in {f \in Range(es) : f[1] \in X}}

RECURSIVE Closure(_, _)
Closure(es, X) ==
    LET Y == X \cup Successors(es, X)
    IN  IF Y = X THEN X ELSE Closure(es, Y)

Descendants(es, n) == Closure(es, Successors(es, {n}))

HasCycle(ns, es) == \E n \in Range(ns) : n \in Descendants(es, n)

PositionIn(list, x) == CHOOSE i \in 1..Len(list) : list[i] = x

(***************************************************************************)
(* C1: whenever the edge set is acyclic, topologicalSort returns a list    *)
(* that holds every node of the graph exactly once and in which the source *)
(* of every edge comes before its target.                                  *)
(***************************************************************************)
C1_AcyclicSortIsTopologicalOrder ==
    ~HasCycle(nodes, edges) =>
        LET r == topologicalSort(nodes, edges)
        IN  /\ ~r.isNone
            /\ Len(r.list) = Len(nodes)
            /\ Range(r.list) = Range(nodes)
            /\ \A i, j \in 1..Len(r.list) : r.list[i] = r.list[j] => i = j
            /\ \A e \in Range(edges) :
                   PositionIn(r.list, e[1]) < PositionIn(r.list, e[2])

\* an acyclic graph of three nodes whose order is not the insertion order
C1_Witness ==
    /\ Len(nodes) = 3
    /\ Len(edges) >= 2
    /\ ~HasCycle(nodes, edges)
    /\ ~topologicalSort(nodes, edges).isNone
    /\ topologicalSort(nodes, edges).list # nodes

(***************************************************************************)
(* C2: whenever the edge set has a directed cycle, topologicalSort returns *)
(* None, never a list of nodes.                                            *)
(***************************************************************************)
C2_CycleSortIsNone ==
    HasCycle(nodes, edges) => topologicalSort(nodes, edges) = None

\* a cycle next to a node outside it, which Kahn's loop does emit
C2_Witness ==
    /\ HasCycle(nodes, edges)
    /\ kahnResult(nodes, edges) # <<>>
    /\ topologicalSort(nodes, edges) = None

(***************************************************************************)
(* C7: addEdge from a node to itself changes neither the nodes nor the     *)
(* edges and makes no topology-changed notification.                       *)
(***************************************************************************)
C7_SelfLoopChangesNothing ==
    [][ (lastOp'.op = "addEdge" /\ lastOp'.a = lastOp'.b) =>
            (edges' = edges /\ nodes' = nodes /\ ~notified') ]_vars

C7_Witness ==
    /\ lastOp.op = "addEdge"
    /\ lastOp.a = lastOp.b
    /\ edges # <<>>
    /\ ~notified

(***************************************************************************)
(* C8: the edge list never holds the same ordered pair twice; addEdge(x,y) *)
(* leaves the edges unchanged when x->y exists, and appends x->y when      *)
(* x # y and x->y does not exist, whether or not y->x exists.              *)
(***************************************************************************)
NoDuplicateEdges(es) == \A i, j \in 1..Len(es) : es[i] = es[j] => i = j

C8_NoDuplicateEdges ==
    [][ /\ NoDuplicateEdges(edges')
        /\ lastOp'.op = "addEdge" =>
              LET x == lastOp'.a
                  y == lastOp'.b
              IN  /\ <<x, y>> \in Range(edges) => edges' = edges
                  /\ (x # y /\ <<x, y>> \notin Range(edges)) =>
                         edges' = Append(edges, <<x, y>>) ]_vars

\* addEdge(x,y) refused as a duplicate while y->x is present too
C8_Witness ==
    /\ lastOp.op = "addEdge"
    /\ lastOp.a # lastOp.b
    /\ ~notified
    /\ <<lastOp.a, lastOp.b>> \in Range(edges)
    /\ <<lastOp.b, lastOp.a>> \in Range(edges)

(***************************************************************************)
(* C9: removeNode(n) removes n and exactly the edges that have n as source *)
(* or target; the other nodes and edges stay, in their order.              *)
(***************************************************************************)
C9_RemoveNodeRemovesIncidentEdgesOnly ==
    [][ lastOp'.op = "removeNode" =>
            LET n == lastOp'.a
            IN  /\ nodes' = SelectSeq(nodes, LAMBDA m : m # n)
                /\ edges' = SelectSeq(edges, LAMBDA e : e[1] # n /\ e[2] # n)
                /\ \A m \in Range(nodes') : node_data'[m] = node_data[m] ]_vars

\* a node with two of the three edges was removed and the edge between the two
\* other nodes is left
C9_Witness ==
    /\ lastOp.op = "removeNode"
    /\ lastOp.b = 3
    /\ Len(nodes) = 2
    /\ edges = <<<<nodes[1], nodes[2]>>>>
    /\ lastOp.a \notin Range(nodes)

(***************************************************************************)
(* C10: every edge in the edge list has its source node and its target     *)
(* node in the node list.                                                  *)
(***************************************************************************)
C10_NoDanglingEdges ==
    \A e \in Range(edges) : e[1] \in Range(nodes) /\ e[2] \in Range(nodes)

\* a project file with the node 2 and two edges that name a node 1 was loaded
C10_Witness ==
    /\ lastOp.op = "loadProjectFromJson"
    /\ lastOp.a = <<FileNode(2)>>
    /\ lastOp.b = <<<<1, 2>>, <<2, 1>>>>
    /\ Len(nodes) = 1
    /\ edges = <<>>
    /\ nodeCounter = 3

(***************************************************************************)
(* The events of a run, read off the result queue.                         *)
(***************************************************************************)
\* the log events execute puts first: one for every step it was called on
ExecStartTexts == {"Executing script", "Executing command", "Unknown command type"}

\* the log events with which execute reports a step that returns False
FailureTexts ==
    {"Exception while executing command", "Unknown command type"}
    \cup {"Command failed, returncode=" \o ToString(c) : c \in {1, -9}}

IsLog(ev, texts) == ev.type = "log" /\ ev.log.text \in texts

IsResponse(ev) == ev.type = "response"

\* the display names of the steps execute was called on, in the order of the calls
Executed(q) ==
    LET started == SelectSeq(q, LAMBDA ev : IsLog(ev, ExecStartTexts))
    IN  [i \in 1..Len(started) |-> started[i].log.name]

RECURSIVE Flatten(_)
\* the display names of all steps of a list of node groups, in plan order
Flatten(groups) ==
    IF groups = <<>>
    THEN <<>>
    ELSE [k \in 1..Len(Head(groups).cmd_list) |-> Head(groups).cmd_list[k].display_name]
         \o Flatten(Tail(groups))

IsPrefix(s, t) == Len(s) <= Len(t) /\ \A i \in 1..Len(s) : s[i] = t[i]

(***************************************************************************)
(* C3: the steps are executed in plan order, none skipped; once a step has *)
(* returned a failure verdict no further step is executed, and the next    *)
(* two events are the failed result of that node group and the failed      *)
(* whole-plan result, which end the run.                                   *)
(***************************************************************************)
C3_FailFast ==
    /\ IsPrefix(Executed(result_queue), Flatten(task.node_commands_list))
    /\ \A p \in 1..Len(result_queue) :
           IsLog(result_queue[p], FailureTexts) =>
               /\ \A q \in (p+1)..Len(result_queue) :
                      ~IsLog(result_queue[q], ExecStartTexts)
               /\ Len(result_queue) >= p + 2
               /\ result_queue[p+1] =
                      SubprocessResponseData(result_queue[p].log.name[1] - 1, FALSE)
               /\ result_queue[p+2] = SubprocessResponseData(-1, FALSE)
               /\ \A q \in (p+3)..Len(result_queue) : ~IsResponse(result_queue[q])
               /\ worker # "execute"

\* the second step of the first of two groups failed: four steps were never run
C3_Witness ==
    /\ worker = "get"
    /\ Len(task.node_commands_list) = 2
    /\ Len(Flatten(task.node_commands_list)) = 6
    /\ Executed(result_queue) = <<<<1, 1>>, <<1, 2>>>>
    /\ result_queue[Len(result_queue)] = SubprocessResponseData(-1, FALSE)

(***************************************************************************)
(* C4: once the worker has taken a plan and is no longer executing it, the *)
(* result queue holds exactly one whole-plan result (index -1), it comes   *)
(* after every per-node result, and it is True exactly if every node group *)
(* got a per-node result True.                                             *)
(***************************************************************************)
WholePlanResults(q) == {p \in 1..Len(q) : IsResponse(q[p]) /\ q[p].index = -1}

NodeResults(q) == {p \in 1..Len(q) : IsResponse(q[p]) /\ q[p].index >= 0}

C4_ExactlyOneWholePlanResult ==
    (task # NoTask /\ worker # "execute") =>
        /\ Cardinality(WholePlanResults(result_queue)) = 1
        /\ \A p \in WholePlanResults(result_queue) :
               /\ \A n \in NodeResults(result_queue) : n < p
               /\ result_queue[p].result <=>
                      \A g \in 0..(Len(task.node_commands_list) - 1) :
                          \E n \in NodeResults(result_queue) :
                              /\ result_queue[n].index = g
                              /\ result_queue[n].result

(***************************************************************************)
(* Claims about the build handlers of the window.                          *)
(***************************************************************************)
\* the nodes onBuildAll compiles when the Start Node ID field holds text
SlicedOrder(text) ==
    LET sorted_nodes == topologicalSort(nodes, edges).list
    IN  SubSeq(sorted_nodes,
               startNode(sorted_nodes, node_data, text).start_index + 1,
               Len(sorted_nodes))

BadProjectPath(project_dir) ==
    project_dir \in {"", "not a directory", "no CMakeLists.txt"}

IsBuildAll(op) == op \in {"onBuildAll", "onPartialBuild"}

\* C5: a full build (from the button, the menu or the partial build dialog) over a
\* sliced topological order in which some node's project path is empty, is no
\* directory or holds no CMakeLists.txt starts no worker process and no listener
\* thread and puts nothing on the task queue, whichever nodes validated before it.
C5_BadProjectPathBlocksSubmission ==
    [][ (/\ IsBuildAll(lastOp'.op)
         /\ ~topologicalSort(nodes, edges).isNone
         /\ \E n \in Range(SlicedOrder(edit_start_node_id')) :
                BadProjectPath(node_data[n].project_path))
        => (/\ spawned' = spawned
            /\ result_thread' = result_thread
            /\ task_queue' = task_queue
            /\ worker' = worker) ]_vars

\* a full build was just refused at the second node of the order, after the first
\* node had validated and its build directory had been made
C5_Witness ==
    /\ lastOp.op = "onBuildAll"
    /\ Len(nodes) = 2
    /\ edges = <<<<nodes[1], nodes[2]>>>>
    /\ edit_start_node_id = BlankText
    /\ node_data[nodes[1]].project_path = "project"
    /\ node_data[nodes[2]].project_path = "no CMakeLists.txt"
    /\ messages = <<"CMakeLists.txt not found.">>
    /\ build_dirs = {nodes[1]}
    /\ spawned = 0
    /\ task_queue = <<>>
    /\ result_thread = 0

\* C6: no build entry point (full build, partial build, single-node build) puts a plan
\* on the task queue or starts a worker process while the edges hold a directed cycle.
C6_NoBuildWhileCyclic ==
    [][ (/\ lastOp'.op \in {"onBuildAll", "onPartialBuild", "onBuildNode"}
         /\ HasCycle(nodes, edges))
        => (spawned' = spawned /\ task_queue' = task_queue) ]_vars

(***************************************************************************)
(* C11: node ids are unique, stable and never reused.  Every addNewNode    *)
(* or removeNode leaves a graph in which no two nodes have the same        *)
(* node_id, keeps the node_id of every node that stays, and gives a new    *)
(* node an id no node has had since the graph was loaded.                  *)
(***************************************************************************)
UniqueNodeIds(ns, data) ==
    \A i, j \in 1..Len(ns) : data[ns[i]].node_id = data[ns[j]].node_id => i = j

C11_NodeIdsUniqueStableNeverReused ==
    [][lastOp'.op \in {"addNewNode", "removeNode"} =>
          /\ UniqueNodeIds(nodes', node_data')
          /\ \A n \in Range(nodes) \cap Range(nodes') :
                 node_data'[n].node_id = node_data[n].node_id
          /\ \A n \in Range(nodes') \ Range(nodes) :
                 node_data'[n].node_id \notin assigned_ids]_vars

(***************************************************************************)
(* C12: titles are unique.  After any creation, rename or load no two      *)
(* nodes of the graph have the same title.                                 *)
(***************************************************************************)
C12_TitlesUnique ==
    \A i, j \in 1..Len(nodes) :
        node_data[nodes[i]].title = node_data[nodes[j]].title => i = j

(***************************************************************************)
(* C13: build settings are owned per node.  A creation dialog accepted     *)
(* with a node B under "Inherit From", and not rejected for its name,      *)
(* adds a node whose build settings equal those of B; and applying the     *)
(* properties panel to a node leaves the build settings of every other     *)
(* node as they were.                                                      *)
(***************************************************************************)
C13_InheritedBuildSettingsAreACopy ==
    [][/\ (lastOp'.op = "onAddNodeDialog" /\ lastOp'.a # 0 /\ lastOp'.b.inherit_idx >= 0)
          => /\ lastOp'.a \in Range(nodes') \ Range(nodes)
             /\ node_data'[lastOp'.a].build_settings =
                    node_data[nodes[lastOp'.b.inherit_idx + 1]].build_settings
       /\ lastOp'.op = "onApplyNodeProperties"
          => \A n \in Range(nodes) \ {current_node} :
                 node_data'[n].build_settings = node_data[n].build_settings]_vars

(***************************************************************************)
(* C14 as the specification states it: a full build whose Start Node ID    *)
(* field holds a number that is the id of no node submits nothing: no      *)
(* worker process is started, nothing is put on the task queue and no      *)
(* build directory is made.                                                *)
(***************************************************************************)
UnknownStartId(text) ==
    /\ text.kind = "int"
    /\ \A n \in Range(nodes) : node_data[n].node_id # text.n

PlanNodes(plan) ==
    [i \in 1..Len(plan.node_commands_list) |-> plan.node_commands_list[i].node_data]

IsBlankScript(text) == text \in {"", " "}

ExpectedSteps(d) ==
    (IF IsBlankScript(d.code_before_build)
     THEN <<>> ELSE <<[type |-> "script", cmd |-> "code_before_build"]>>)
    \o <<[type |-> "cmd", cmd |-> "configure"], [type |-> "cmd", cmd |-> "build"],
         [type |-> "cmd", cmd |-> "install"]>>
    \o (IF IsBlankScript(d.code_after_install)
        THEN <<>> ELSE <<[type |-> "script", cmd |-> "code_after_install"]>>)

GroupSteps(node_cmd) ==
    [k \in 1..Len(node_cmd.cmd_list) |->
        [type |-> node_cmd.cmd_list[k].type, cmd |-> node_cmd.cmd_list[k].cmd]]

C16_FullCompileGroupsAndSteps ==
    [][(lastOp'.op \in {"onBuildAll", "onBuildNode"} /\ spawned' = spawned + 1)
       => LET plan == Head(task_queue')
              order == IF lastOp'.op = "onBuildAll"
                       THEN SlicedOrder(edit_start_node_id)
                       ELSE <<current_node>>
          IN  /\ PlanNodes(plan) = order
              /\ \A i \in 1..Len(order) :
                     GroupSteps(plan.node_commands_list[i]) =
                         ExpectedSteps(node_data[order[i]])]_vars

\* a full build over 1 -> 2 has just been submitted; node 1 has a pre-build script
\* and a post-install text of white space only, node 2 only a post-install script
C16_Witness ==
    /\ lastOp.op = "onBuildAll"
    /\ spawned = 1
    /\ Len(nodes) = 2
    /\ edges = <<<<nodes[1], nodes[2]>>>>
    /\ node_data[nodes[1]].code_before_build = "code"
    /\ node_data[nodes[1]].code_after_install = " "
    /\ node_data[nodes[2]].code_before_build = ""
    /\ node_data[nodes[2]].code_after_install = "code"
    /\ Len(Head(task_queue).node_commands_list) = 2
    /\ Len(Head(task_queue).node_commands_list[1].cmd_list) = 4
    /\ Len(Head(task_queue).node_commands_list[2].cmd_list) = 4

(***************************************************************************)
(* C15: whatever the graph, the start node and the scripts of the nodes,   *)
(* the plan a full build compiles, filtered to the stage build, has in     *)
(* every group the build step and nothing else.                            *)
(***************************************************************************)
C15_BuildStageHasOnlyTheBuildStep ==
    LET r == onBuildAll(nodes, edges, node_data, edit_start_node_id)
    IN  r.submit =>
            LET groups == stageFilter(r.plan.node_commands_list, "build")
            IN  /\ Len(groups) = Len(r.plan.node_commands_list)
                /\ \A i \in 1..Len(groups) :
                       GroupSteps(groups[i]) = <<[type |-> "cmd", cmd |-> "build"]>>

\* two nodes 1 -> 2 that both have a pre-build and a post-install script compile
C15_Witness ==
    /\ Len(nodes) = 2
    /\ edges = <<<<nodes[1], nodes[2]>>>>
    /\ \A n \in Range(nodes) : /\ node_data[n].code_before_build = "code"
                                /\ node_data[n].code_after_install = "code"
    /\ onBuildAll(nodes, edges, node_data, edit_start_node_id).submit
    /\ Len(onBuildAll(nodes, edges, node_data,
                      edit_start_node_id).plan.node_commands_list) = 2

(***************************************************************************)
(* C17: save/load round trip.  When the file written last is the save of   *)
(* the graph as it is and that file is loaded, the graph after the load    *)
(* has nodes with the same data (node_id, title, cmake_options,            *)
(* project_path, build settings, scripts) and the same pairs <<source id,  *)
(* target id>> of edges as before.                                         *)
(***************************************************************************)
NodeRecords(ns, data) == {data[n] : n \in Range(ns)}

EdgePairs(es, data) == {<<data[e[1]].node_id, data[e[2]].node_id>> : e \in Range(es)}

C17_SaveLoadRoundTrip ==
    [][(/\ lastOp'.op = "onLoadProject"
        /\ lastOp'.a = saved_file
        /\ saved_file = saveProjectToJson(Scene, saved_file.start_node_id))
       => (/\ NodeRecords(nodes', node_data') = NodeRecords(nodes, node_data)
           /\ EdgePairs(edges', node_data') = EdgePairs(edges, node_data))]_vars

(***************************************************************************)
(* C18: for every NodeData x, from_json(to_json(x), NodeData) is a         *)
(* NodeData equal to x, and its build_settings is a BuildSettings          *)
(* instance.                                                               *)
(***************************************************************************)
C18_DataclassJsonRoundTrip ==
    lastOp.op = "from_json(to_json)"
        => /\ lastOp.b = lastOp.a
           /\ lastOp.b.items.build_settings.py = "BuildSettings"

(***************************************************************************)
(* C19: the build-run state machine.  The step that submits a plan leaves  *)
(* the build buttons disabled, one new worker process and one listener     *)
(* kept by the window, and the plan as the only message on the task queue. *)
(* The listener of a run is stopped only by the slot handling a whole-plan *)
(* result (index -1) that the worker of that run has put; that slot writes *)
(* "Build Completed!" when the result is True and "Build Failed!" when it  *)
(* is False; when the buttons are enabled again no listener the window     *)
(* started is running and no worker process it started is alive; and the   *)
(* slot handling a per-node result (index >= 0) changes none of the        *)
(* buttons, the listener and the worker process.                           *)
(***************************************************************************)
\* a plan is submitted in this step
Submitted == spawned' = spawned + 1

\* the main thread runs onWorkerResponse in this step
ResponseHandled ==
    /\ signals # <<>>
    /\ signals' = Tail(signals)
    /\ Head(signals).type = "response"

\* the last line of the output pane
LastLine(text) == IF text = <<>> THEN "" ELSE text[Len(text)].text

C19_BuildRunStateMachine ==
    [][/\ Submitted
          => /\ ~buttons_enabled'
             /\ result_thread' # 0
             /\ worker_proc' = "started"
             /\ worker' = "init"
             /\ Len(task_queue') = 1
             /\ Head(task_queue').type = "ProjectCommands"
       /\ (result_thread # 0 /\ result_thread' = 0)
          => /\ ResponseHandled
             /\ Head(signals).index = -1
             /\ \E i \in 1..Len(result_queue) : result_queue[i] = Head(signals)
       /\ (ResponseHandled /\ Head(signals).index = -1)
          => LastLine(build_output_text') = IF Head(signals).result
                                            THEN "Build Completed!"
                                            ELSE "Build Failed!"
       /\ (~buttons_enabled /\ buttons_enabled')
          => /\ result_thread' = 0
             /\ worker_proc' = "None"
             /\ ~IsAlive'
             /\ ~orphan'.active
       /\ (ResponseHandled /\ Head(signals).index >= 0)
          => UNCHANGED <<buttons_enabled, result_thread, worker_proc>>]_vars

(***************************************************************************)
(* C20: progress accounting.  The step that submits a plan leaves the      *)
(* completed-count at 0; the slot handling a per-node result (index >= 0), *)
(* True or False, adds exactly one to it; the slot handling the whole-plan *)
(* result (index -1) leaves it as it is; and while a run is kept the count *)
(* is at most the number of node groups of the plan that was submitted.    *)
(***************************************************************************)
\* the plan the worker process kept by the window was handed
SubmittedPlan ==
    IF task_queue # <<>> /\ Head(task_queue).type = "ProjectCommands"
    THEN Head(task_queue)
    ELSE task

C20_ProgressAccounting ==
    [][/\ Submitted => current_progress' = 0
       /\ (ResponseHandled /\ Head(signals).index >= 0)
              => current_progress' = current_progress + 1
       /\ (ResponseHandled /\ Head(signals).index = -1)
              => current_progress' = current_progress
       /\ result_thread' # 0
              => current_progress' <= Len(SubmittedPlan'.node_commands_list)]_vars

(***************************************************************************)
(* C21: event ordering.  In a run over which no other run was started, the *)
(* events the slots have handled are the first events of the result queue  *)
(* in the order the worker put them - the output pane holds their lines in *)
(* that order and the emitted signals that wait are the events that follow *)
(* - and among the handled events none of node group i comes after one of  *)
(* node group j when i < j.                                                *)
(***************************************************************************)
\* the number of events of the kept run the slots have handled
Delivered == taken - Len(signals)

RECURSIVE Lines(_)
\* the lines onWorkerLog and onWorkerResponse write for a list of events
Lines(q) ==
    IF q = <<>>
    THEN <<>>
    ELSE (IF Head(q).type = "log" THEN <<Head(q).log>> ELSE responseText(Head(q)))
         \o Lines(Tail(q))

\* the place in the plan of the node group an event was produced for, 0 when the
\* event names none
GroupOf(ev) ==
    IF ev.type = "response"
    THEN ev.index + 1
    ELSE IF ev.log.name = NoName THEN 0 ELSE ev.log.name[1]

C21_EventsDeliveredInPutOrder ==
    ~orphan.active =>
        /\ Delivered >= 0
        /\ signals = SubSeq(result_queue, Delivered + 1, taken)
        /\ build_output_text =
               <<SentLine>> \o Lines(SubSeq(result_queue, 1, Delivered))
        /\ \A p, q \in 1..Delivered :
               (p < q /\ GroupOf(result_queue[p]) > 0 /\ GroupOf(result_queue[q]) > 0)
                   => GroupOf(result_queue[p]) <= GroupOf(result_queue[q])

\* the events of a plan of two groups with one step each were all handled, the
\* whole-plan result last
C21_Witness ==
    /\ ~orphan.active
    /\ Len(task.node_commands_list) = 2
    /\ \A g \in 1..2 : Len(task.node_commands_list[g].cmd_list) = 1
    /\ Delivered = Len(result_queue)
    /\ result_queue[Delivered] = SubprocessResponseData(-1, TRUE)
    /\ \E p, q \in 1..Delivered : GroupOf(result_queue[p]) = 1 /\ GroupOf(result_queue[q]) = 2

(***************************************************************************)
(* C22: no log event is lost.  When the listener thread has been stopped,  *)
(* every log event the worker has put on the result queue was taken from   *)
(* it before, so that it is written to the output pane.                    *)
(***************************************************************************)
C22_NoLogEventLost ==
    result_thread = 0 =>
        \A p \in (taken + 1)..Len(result_queue) : result_queue[p].type # "log"

(***************************************************************************)
(* C23: stopWorkerProcess is safe in every state.  The quit token is put   *)
(* only by a call that finds a kept worker process alive, and that call    *)
(* stops the listener and waits in join; a call that finds no process or a *)
(* process that has ended puts nothing and leaves the window with no       *)
(* process and no listener; when the join returns the process has ended or *)
(* was terminated, also in the middle of a plan; and whenever the window   *)
(* keeps no process it keeps no listener and the process it had is not     *)
(* alive.                                                                  *)
(***************************************************************************)
\* stopWorkerProcess is called in this step: by closeEvent, or by onWorkerResponse
StopCalled ==
    /\ MainThreadFree
    /\ \/ worker_proc' # worker_proc
       \/ result_thread # 0 /\ result_thread' = 0

C23_StopWorkerProcessIsSafe ==
    /\ [][/\ task_queue' = Append(task_queue, QUIT)
              => /\ worker_proc = "started" /\ IsAlive
                 /\ worker_proc' \in {"joining", "stopping"}
                 /\ result_thread' = 0
          /\ (StopCalled /\ ~Submitted)
              => /\ result_thread' = 0
                 /\ IF worker_proc = "started" /\ IsAlive
                    THEN task_queue' = Append(task_queue, QUIT)
                    ELSE task_queue' = task_queue /\ worker_proc' = "None"
                 /\ UNCHANGED <<result_queue, worker, task, idx, cmd_pos>>
          /\ (worker_proc \in {"joining", "stopping"} /\ worker_proc' = "None")
              => /\ ~IsAlive'
                 /\ IsAlive => worker' = "terminated"]_vars
    /\ [](worker_proc = "None" => result_thread = 0 /\ ~IsAlive)

\* the window was closed in the middle of a plan and the worker did not end in time
C23_Witness ==
    /\ worker_proc = "None"
    /\ worker = "terminated"
    /\ task # NoTask
    /\ idx = 0 /\ cmd_pos = 2
    /\ WholePlanResults(result_queue) = {}
    /\ Head(task_queue) = QUIT

(***************************************************************************)
(* C24: a crash of the worker process ends the run as Failed.  When the    *)
(* worker process has died before it put a whole-plan result, every event  *)
(* it had put has been handled and the main thread is in no handler, then  *)
(* the run has been ended: the last line of the output pane is "Build      *)
(* Failed!", the listener is stopped and the build buttons are enabled.    *)
(***************************************************************************)
C24_WorkerCrashEndsRunAsFailed ==
    (/\ worker = "died"
     /\ WholePlanResults(result_queue) = {}
     /\ Delivered = Len(result_queue)
     /\ MainThreadFree)
        => /\ LastLine(build_output_text) = "Build Failed!"
           /\ result_thread = 0
           /\ buttons_enabled

(***************************************************************************)
(* C25: execute has no unhandled-error exit path.  Every call of execute   *)
(* by the worker returns: the worker goes on to the next step, or it has   *)
(* put the result of the node group and, last, the whole-plan result and   *)
(* waits for its next task.  The process does not end in execute.          *)
(***************************************************************************)
C25_ExecuteNeverRaises ==
    [][(worker = "execute" /\ result_queue' # result_queue)
          => /\ worker' \in {"execute", "get"}
             /\ worker' = "get"
                 => LET n == Len(result_queue')
                    IN  /\ IsResponse(result_queue'[n])
                        /\ result_queue'[n].index = -1
                        /\ \E p \in 1..(n - 1) :
                               /\ IsResponse(result_queue'[p])
                               /\ result_queue'[p].index = idx]_vars

(***************************************************************************)
(* C26: topologicalSort gives the FIFO Kahn order.  In the list it returns *)
(* the nodes stand in the order in which they became ready: a node without *)
(* incoming edge is ready from the start, and these stand in node          *)
(* insertion order before all others; any other node becomes ready when    *)
(* the last of its predecessors in the list is emitted, so nodes stand in  *)
(* the order of these predecessors, and nodes made ready by the same node  *)
(* in the order of its edges.  Node ids do not occur in this order.        *)
(***************************************************************************)
Predecessors(es, x) == {e[1] : e \in {f \in Range(es) : f[2] = x}}

\* when x became ready: <<0, its place in ns>> without predecessor, else the place in
\* list of its last predecessor and the place in es of the edge from it
ReadyAt(ns, es, list, x) ==
    IF Predecessors(es, x) = {}
    THEN <<0, PositionIn(ns, x)>>
    ELSE LET last == CHOOSE p \in Predecessors(es, x) :
                         \A q \in Predecessors(es, x) :
                             PositionIn(list, q) <= PositionIn(list, p)
         IN  <<PositionIn(list, last), PositionIn(es, <<last, x>>)>>

C26_TopologicalSortIsFifoKahnOrder ==
    LET r == topologicalSort(nodes, edges)
    IN  ~r.isNone =>
            \A i, j \in 1..Len(r.list) :
                   i < j =>
                       LET a == ReadyAt(nodes, edges, r.list, r.list[i])
                           b == ReadyAt(nodes, edges, r.list, r.list[j])
                       IN  a[1] < b[1] \/ (a[1] = b[1] /\ a[2] < b[2])

\* c became ready behind b, which was waiting, and stands behind it; the order is
\* neither the order of the ids nor its reverse
C26_Witness ==
    /\ Len(nodes) = 3
    /\ LET r == topologicalSort(nodes, edges)
       IN  /\ ~r.isNone
           /\ Predecessors(edges, r.list[1]) = {}
           /\ Predecessors(edges, r.list[2]) = {}
           /\ Predecessors(edges, r.list[3]) = {r.list[1]}
           /\ node_data[r.list[1]].node_id > node_data[r.list[2]].node_id
           /\ node_data[r.list[3]].node_id > node_data[r.list[2]].node_id

(***************************************************************************)
(* C27: addNewNode assigns the new node the largest node_id among the      *)
(* nodes currently in the graph plus 1, and 1 when the graph is empty,     *)
(* after any sequence of additions and removals.                           *)
(* C27_NewIdIsGraphMaxPlusOne is that statement.  The code assigns the     *)
(* allocation counter: C27_NewIdIsAssignedMaxPlusOne states that the new   *)
(* id is the largest node_id any node has had since the graph was loaded   *)
(* (or since the start) plus 1, 1 when there was none, and that it is the  *)
(* largest id in the graph plus 1 whenever the node with the largest id    *)
(* handed out so far is still in the graph.                                *)
(***************************************************************************)
MaxId(ids) == IF ids = {} THEN 0 ELSE CHOOSE m \in ids : \A x \in ids : x <= m

NewNodeId == node_data'[nodes'[Len(nodes')]].node_id

C27_NewIdIsGraphMaxPlusOne ==
    [][lastOp'.op = "addNewNode" => NewNodeId = MaxId(NodeIds(Scene)) + 1]_vars

C27_NewIdIsAssignedMaxPlusOne ==
    [][lastOp'.op = "addNewNode" =>
          /\ NewNodeId = MaxId(assigned_ids) + 1
          /\ MaxId(assigned_ids) \in NodeIds(Scene) \cup {0} =>
                 NewNodeId = MaxId(NodeIds(Scene)) + 1]_vars

\* a node was added after the node with the largest id had been removed
C27_Witness ==
    /\ lastOp.op = "addNewNode"
    /\ Len(nodes) = 2
    /\ node_data[nodes[1]].node_id = 1
    /\ node_data[nodes[2]].node_id = 3
    /\ assigned_ids = {1, 2, 3}

(***************************************************************************)
(* C28: loading a project resets id allocation from the loaded data only.  *)
(* The addNewNode that follows a loadProjectFromJson of a file whose nodes *)
(* have ids S gives the new node max(S) + 1, 1 when S is empty, whatever   *)
(* the counter and the graph were before the load, and the new id is the   *)
(* id of no loaded node.                                                   *)
(***************************************************************************)
LoadedIds == {lastOp.a[i].node_id : i \in 1..Len(lastOp.a)}

C28_LoadResetsIdAllocation ==
    [][lastOp.op = "loadProjectFromJson" /\ lastOp'.op = "addNewNode" =>
          /\ NewNodeId = MaxId(LoadedIds) + 1
          /\ NewNodeId \notin LoadedIds
          /\ NewNodeId \notin NodeIds(Scene)]_vars

\* a node was added to a graph loaded from a file whose only node has id 2:
\* without a load, id 1 would be among the ids handed out
C28_Witness ==
    /\ lastOp.op = "addNewNode"
    /\ assigned_ids = {2, 3}
    /\ Len(nodes) = 2
    /\ node_data[nodes[1]].node_id = 2
    /\ node_data[nodes[2]].node_id = 3

(***************************************************************************)
(* C29: the worker checks for the quit token only between plans.  A quit   *)
(* token put on the task queue while a plan is executing stays there until *)
(* the plan has run to its whole-plan result: the worker leaves a plan     *)
(* only with that result (or because the process ended), it takes the      *)
(* token only while waiting for a task with the whole-plan result of the   *)
(* plan it had as its last event, and having taken it the worker puts its  *)
(* two closing lines, executes nothing more and has exited.                *)
(***************************************************************************)
WholePlanResultIsLast(q) ==
    /\ q # <<>>
    /\ q[Len(q)].type = "response"
    /\ q[Len(q)].index = -1

TakesQuit ==
    /\ task_queue # <<>>
    /\ Head(task_queue) = QUIT
    /\ task_queue' = Tail(task_queue)

C29_QuitReadOnlyBetweenPlans ==
    [][/\ (worker = "execute" /\ QUIT \in Range(task_queue)) =>
              /\ QUIT \in Range(task_queue')
              /\ worker' \in {"execute", "get", "died", "terminated"}
              /\ worker' = "get" => WholePlanResultIsLast(result_queue')
       /\ TakesQuit =>
              /\ worker = "get"
              /\ task # NoTask => WholePlanResultIsLast(result_queue)
              /\ worker' = "finished"
              /\ result_queue' = result_queue \o
                     <<SubprocessLogData("Received quit command, exiting...", NoName),
                       SubprocessLogData("Worker process finished.", NoName)>>
       /\ worker = "finished" =>
              /\ worker' = "finished"
              /\ result_queue' = result_queue]_vars

\* the worker has taken the token and exited after a plan of two groups, both run
\* to the end, while the window waits in join
C29_Witness ==
    /\ worker = "finished"
    /\ worker_proc = "joining"
    /\ Len(task.node_commands_list) = 2
    /\ idx = 2
    /\ \E p \in 1..Len(result_queue) :
           result_queue[p] = SubprocessResponseData(-1, TRUE)

(***************************************************************************)
(* C30: per-node result accounting is 1:1 with the plan.  While a plan is  *)
(* executing, every node group before the current one has exactly one      *)
(* per-node result, True, in plan order, and no other group has one.  When *)
(* the run has ended without a failing step, every node group - one with   *)
(* zero steps too - has exactly one result, True, in plan order; when it   *)
(* has ended by a failure in group k, the groups before k have one True    *)
(* each, group k has one False and no True, and the groups after k have    *)
(* none.                                                                   *)
(***************************************************************************)
\* the per-node results on q as <<index, result>>, in the order they were put
PerNodeResults(q) ==
    LET rs == SelectSeq(q, LAMBDA ev : IsResponse(ev) /\ ev.index >= 0)
    IN  [i \in 1..Len(rs) |-> <<rs[i].index, rs[i].result>>]

C30_PerNodeResultsOneToOne ==
    LET groups == task.node_commands_list
        results == PerNodeResults(result_queue)
    IN  /\ worker = "execute" =>
               results = [g \in 1..idx |-> <<g - 1, TRUE>>]
        /\ (task # NoTask /\ worker \in {"get", "finished", "died"}) =>
               IF idx = Len(groups)
               THEN results = [g \in 1..Len(groups) |-> <<g - 1, TRUE>>]
               ELSE results = [g \in 1..(idx + 1) |-> <<g - 1, g <= idx>>]

(***************************************************************************)
(* C31: start-node slicing.  A full or partial build that submits a plan   *)
(* while the Start Node ID field holds the id of a node of the topological *)
(* order submits the groups of exactly the nodes from that node            *)
(* (inclusive) to the end of the order, in that order, and no group for a  *)
(* node before it; with the field blank the plan covers the whole order.   *)
(***************************************************************************)
\* the places of the topological order whose node has the id
PlacesOfId(sorted, id) == {i \in 1..Len(sorted) : node_data[sorted[i]].node_id = id}

C31_StartNodeSlicing ==
    [][(IsBuildAll(lastOp'.op) /\ spawned' = spawned + 1) =>
          LET sorted == topologicalSort(nodes, edges).list
              text == edit_start_node_id'
              plan == Head(task_queue')
          IN  /\ (text.kind = "int" /\ PlacesOfId(sorted, text.n) # {}) =>
                     \E p \in PlacesOfId(sorted, text.n) :
                         /\ PlanNodes(plan) = SubSeq(sorted, p, Len(sorted))
                         /\ \A i \in 1..(p - 1) : sorted[i] \notin Range(PlanNodes(plan))
                         /\ plan.start_node_id = text.n
              /\ text.kind = "blank" => PlanNodes(plan) = sorted]_vars

\* a build from the second node of the order 1 -> 2 -> ... was just submitted: the
\* plan has no group for the first node
C31_Witness ==
    /\ IsBuildAll(lastOp.op)
    /\ Len(nodes) = 2
    /\ edges = <<<<nodes[1], nodes[2]>>>>
    /\ edit_start_node_id = NumberText(node_data[nodes[2]].node_id)
    /\ spawned = 1
    /\ Len(task_queue) = 1
    /\ PlanNodes(Head(task_queue)) = <<nodes[2]>>

(***************************************************************************)
(* C32 as the specification states it: the configure list is the tool,     *)
(* -S <project_path>, -B <build_dir/title/build_type>,                     *)
(* -DCMAKE_BUILD_TYPE=<build_type>,                                        *)
(* -DCMAKE_INSTALL_PREFIX=<install_dir/build_type>, then the generator, C  *)
(* compiler, C++ compiler, toolchain-file and prefix-path flags, each iff  *)
(* its setting is not empty, then every cmake_options entry in order;      *)
(* build is <tool> --build <out> --config <type> --parallel <n> and        *)
(* install is <tool> --install <out> --config <type> with the same <out>.  *)
(***************************************************************************)
Compiled == lastOp.op = "compileCommands"

OutDir(d) ==
    d.build_settings.build_dir \o "/" \o d.title \o "/" \o d.build_settings.build_type

\* the flags of the settings that are not empty, in the order of names
OptionalFlags(bs, names) ==
    LET value(i) == IF names[i] = "-G" THEN bs.generator
                    ELSE IF names[i] = "-DCMAKE_C_COMPILER:FILEPATH=" THEN bs.c_compiler
                    ELSE IF names[i] = "-DCMAKE_CXX_COMPILER:FILEPATH=" THEN bs.cxx_compiler
                    ELSE IF names[i] = "-DCMAKE_TOOLCHAIN_FILE=" THEN bs.toolchain_file
                    ELSE bs.prefix_path
        F[i \in 0..Len(names)] ==
            IF i = 0 THEN <<>>
            ELSE IF value(i) = "" THEN F[i - 1]
            ELSE IF names[i] = "-G" THEN F[i - 1] \o <<"-G", value(i)>>
            ELSE Append(F[i - 1], names[i] \o value(i))
    IN  F[Len(names)]

BuildAndInstallAsStated ==
    LET d == lastOp.a
        type == d.build_settings.build_type
    IN  /\ lastOp.b.build = <<"cmake", "--build", OutDir(d), "--config", type,
                               "--parallel", ToString(lastOp.b.cpu_count)>>
        /\ lastOp.b.install = <<"cmake", "--install", OutDir(d), "--config", type>>

ChildRan ==
    /\ lastOp.op = "execute"
    /\ lastOp.a.cmd_data.type = "cmd"
    /\ lastOp.a.run.raised = "none"

\* a log event of the call ends with the exit code
ExitCodeLogged ==
    \E p \in 1..Len(lastOp.b.logs) :
        \E prefix \in {"Command failed, returncode=", "Command succeeded, returncode="} :
            lastOp.b.logs[p].log.text = prefix \o ToString(lastOp.a.run.returncode)

OutputForwarded ==
    LET run == lastOp.a.run
        texts == [p \in 1..Len(lastOp.b.logs) |-> lastOp.b.logs[p].log.text]
        between == SubSeq(texts, 2, Len(texts) - 1)
    IN  /\ texts[1] = "Executing command"
        /\ between = (IF run.stdout # "" THEN <<run.stdout>> ELSE <<>>)
                         \o (IF run.stderr # "" THEN <<run.stderr>> ELSE <<>>)

C33_NativeStepVerdictAndLogs ==
    ChildRan =>
        /\ ~lastOp.b.escaped
        /\ lastOp.b.ok <=> lastOp.a.run.returncode = 0
        /\ OutputForwarded
        /\ ExitCodeLogged

(***************************************************************************)
(* C33 as the code has it: execute returns success iff the exit code is    *)
(* zero; the captured stdout and the captured stderr, each if it is not    *)
(* empty, are forwarded as log events after the line that announces the    *)
(* step and before the line that closes it, for successful and failed      *)
(* commands alike; the closing line of a failed command carries the exit   *)
(* code, the closing line of a successful command says that it succeeded   *)
(* and carries no exit code.                                               *)
(***************************************************************************)
C33_ExitCodeLoggedOnFailure ==
    ChildRan =>
        /\ ~lastOp.b.escaped
        /\ lastOp.b.ok <=> lastOp.a.run.returncode = 0
        /\ OutputForwarded
        /\ IF lastOp.a.run.returncode = 0
           THEN lastOp.b.logs[Len(lastOp.b.logs)].log.text = "Command succeeded"
           ELSE /\ ExitCodeLogged
                /\ lastOp.b.logs[Len(lastOp.b.logs)].log.text =
                       "Command failed, returncode=" \o ToString(lastOp.a.run.returncode)

\* a child killed by a signal after writing to both streams, and a child that
\* writes to stderr and succeeds, are told apart: this is the first
C33_Witness ==
    /\ ChildRan
    /\ lastOp.a.run.returncode = -9
    /\ lastOp.a.run.stdout = "text"
    /\ lastOp.a.run.stderr = "error"
    /\ ~lastOp.b.ok
    /\ Len(lastOp.b.logs) = 4

(***************************************************************************)
(* C34: at most one build run is active at a time.  A build handler        *)
(* creates a worker process and a listener thread only when the window     *)
(* keeps no listener and no worker process and the worker of the run       *)
(* before has ended, and the worker of a dropped run is never alive next   *)
(* to the worker the window keeps.                                         *)
(***************************************************************************)
C34_AtMostOneRunActive ==
    [][/\ Submitted => (result_thread = 0 /\ worker_proc = "None" /\ ~IsAlive)
       /\ ~(IsAlive' /\ orphan'.active /\ orphan'.worker \in {"init", "get", "execute"})]_vars

(***************************************************************************)
(* C35: the index of a per-node result event identifies the node it        *)
(* reports on.  The per-node results of the plan the worker has taken come *)
(* one per node group in plan order, and the index of each is the index    *)
(* field of its NodeCommands group, the id of the owning node.             *)
(***************************************************************************)
C35_ResultIndexIsGroupIndex ==
    task # NoTask =>
        LET results == PerNodeResults(result_queue)
        IN  \A i \in 1..Len(results) :
                /\ i <= Len(task.node_commands_list)
                /\ results[i][1] = task.node_commands_list[i].index

(***************************************************************************)
(* C36: loadProjectFromJson re-establishes the graph invariants for any    *)
(* file.  After a load the nodes are exactly the records of the file, in   *)
(* order, and nothing else; no two nodes have the same node_id; and the    *)
(* edges are the edge records of the file whose two ids both name loaded   *)
(* nodes, without self-loops and without a repeated ordered pair.          *)
(***************************************************************************)
LoadedGraphIsTheFile ==
    /\ [i \in 1..Len(nodes') |-> node_data'[nodes'[i]]] = lastOp'.a
    /\ LET ids == {lastOp'.a[i].node_id : i \in 1..Len(lastOp'.a)}
       IN  EdgePairs(edges', node_data') =
               {e \in Range(lastOp'.b) : e[1] \in ids /\ e[2] \in ids /\ e[1] # e[2]}
    /\ NoDuplicateEdges(edges')
    /\ \A e \in Range(edges') : e[1] # e[2] /\ e[1] \in Range(nodes') /\ e[2] \in Range(nodes')

C36_LoadReestablishesInvariants ==
    [][lastOp'.op = "loadProjectFromJson" =>
          /\ LoadedGraphIsTheFile
          /\ UniqueNodeIds(nodes', node_data')]_vars

(***************************************************************************)
(* C37: every submitted run terminates.  A run has ended when the window   *)
(* keeps no listener and no worker process and the worker process is not   *)
(* alive.  Every step of a run consumes something (a task, a step of the   *)
(* plan, an event on the result queue, a pending signal, the join), so a   *)
(* run ends iff it cannot get stuck: as long as the run of a submitted     *)
(* plan has not ended, the worker, the listener thread, a slot or the join *)
(* of stopWorkerProcess can take a step.                                   *)
(***************************************************************************)
RunEnded == result_thread = 0 /\ worker_proc = "None" /\ ~IsAlive

RunStep ==
    \/ WorkerStart
    \/ WorkerGetTask
    \/ WorkerExecute
    \/ ListenerGet
    \/ OnWorkerLog
    \/ OnWorkerResponse
    \/ JoinReturns
    \/ JoinTimeout

C37_EverySubmittedRunTerminates ==
    (spawned > 0 /\ ~RunEnded) => ENABLED RunStep

(***************************************************************************)
(* C38: applying the properties panel without editing is the identity.     *)
(* When a node has just been selected (which fills the panel from it) and  *)
(* the panel is applied with no field changed, the node's title, options,  *)
(* project path, scripts and build settings are what they were; a node     *)
(* whose generator was the empty string has the empty generator            *)
(* afterwards and its configure list has no -G flag.                       *)
(***************************************************************************)
JustSelected ==
    /\ lastOp.op \in {"onSceneSelectionChanged", "onAddNodeDialog"}
    /\ current_node \in Range(nodes)
    /\ lastOp.a = current_node

C38_ApplyWithoutEditIsIdentity ==
    [][(JustSelected /\ lastOp'.op = "onApplyNodeProperties") =>
          /\ node_data'[current_node] = node_data[current_node]
          /\ node_data[current_node].build_settings.generator = "" =>
                 /\ node_data'[current_node].build_settings.generator = ""
                 /\ "-G" \notin Range(cmd_configure(node_data'[current_node]))]_vars

====
